---- MODULE Spec2Model ----
(***************************************************************************)
(* A byte-level model of the rsql storage engine: the pager (pager.rs),    *)
(* the node codec (btree.rs), the clustered primary B+-Tree (table.rs),    *)
(* the secondary index (index.rs) and the executor's statements            *)
(* (executor.rs).  A page is a tuple of PAGE_SIZE bytes; every header      *)
(* field and cell is read and written at the byte offsets the source       *)
(* uses, so stale bytes left in a page are visible exactly where the code  *)
(* would see them.                                                         *)
(*                                                                         *)
(* The fields of every record constructor are written in the order TLC     *)
(* keeps a record's fields in, so that a record is in normal form from the *)
(* moment it is built and two workers never reorder one value at once.     *)
(***************************************************************************)
EXTENDS Integers, Sequences, FiniteSets, TLC

\* ------------------------------------------------------------------ bounds
\* The page size of the model (pager.rs:5 sets 4096).  It is scaled so that a
\* leaf holds two 12-byte cells and an internal node three keys; as in the
\* source, (PAGE_SIZE - 14) % 8 < 4, so the child slot behind the last key
\* of a full internal node does not fit in the page.
PAGE_SIZE == 40
\* The byte width of an index key (index.rs:15 sets 64), scaled likewise.
INDEX_KEY_SIZE == 8
\* Statements (or Table calls) per behaviour.
MaxOps == 6
\* Primary keys offered are 1..MaxKey.
MaxKey == 6
MaxStmts == 6
MaxIndexed == 4
\* Statements and calls in a run on both trees, and the ids they use.
MaxTrees == 5
MaxTreeKey == 4
\* Statements in a run on the catalog.
MaxCatalog == 5
\* Calls of Table::insert and Table::delete in a run that records them, and
\* the keys they use.
MaxCalls == 6
MaxCallKey == 5
\* Calls of Index::insert and Index::delete in a run that records them, and
\* the row ids they use.
MaxIndexCalls == 5
MaxRowId == 2
\* Statements in a run with a JOIN.
MaxJoin == 4

\* ------------------------------------------------------- program constants
TABLE_MAX_PAGES == 100
COMMON_NODE_HEADER_SIZE == 6
LEAF_NODE_NUM_CELLS_OFFSET == COMMON_NODE_HEADER_SIZE
LEAF_NODE_NEXT_LEAF_OFFSET == LEAF_NODE_NUM_CELLS_OFFSET + 4
LEAF_NODE_HEADER_SIZE == COMMON_NODE_HEADER_SIZE + 8
INTERNAL_NODE_NUM_KEYS_OFFSET == COMMON_NODE_HEADER_SIZE
INTERNAL_NODE_RIGHT_CHILD_OFFSET == INTERNAL_NODE_NUM_KEYS_OFFSET + 4
INTERNAL_NODE_HEADER_SIZE == COMMON_NODE_HEADER_SIZE + 8
INTERNAL_NODE_CHILD_SIZE == 4
INTERNAL_NODE_KEY_SIZE == 4
INTERNAL_NODE_CELL_SIZE == INTERNAL_NODE_CHILD_SIZE + INTERNAL_NODE_KEY_SIZE
NODE_TYPE_OFFSET == 0
IS_ROOT_OFFSET == 1
PARENT_POINTER_OFFSET == 2
INDEX_ROW_ID_SIZE == 4
INDEX_CELL_SIZE == INDEX_KEY_SIZE + INDEX_ROW_ID_SIZE

\* NodeType (btree.rs:29-43): byte 0 is Internal, any other byte is Leaf.
NodeInternal == 0
NodeLeaf == 1

\* ------------------------------------------------------------ byte helpers
Min(a, b) == IF a < b THEN a ELSE b
Max(a, b) == IF a > b THEN a ELSE b

ZeroPage == [i \in 1..PAGE_SIZE |-> 0]
Zeros(n) == [i \in 1..n |-> 0]

\* ptr::read_unaligned of a little-endian u32 at byte offset off.
ReadU32(page, off) ==
    page[off + 1] + 256 * page[off + 2] + 65536 * page[off + 3]
        + 16777216 * page[off + 4]

\* The four little-endian bytes of a u32.
U32Bytes(v) ==
    << v % 256, (v \div 256) % 256, (v \div 65536) % 256, (v \div 16777216) % 256 >>

\* Copy bytes into the page at offset off; a byte that falls behind the end
\* of the page buffer is not part of the page (see OutOfPage).
WriteBytes(page, off, bytes) ==
    [i \in 1..PAGE_SIZE |->
        IF i > off /\ i <= off + Len(bytes) THEN bytes[i - off] ELSE page[i]]

\* A write of n bytes at off reaches behind the page buffer.
OutOfPage(off, n) == off + n > PAGE_SIZE

\* ptr::write_unaligned of a u32 at byte offset off.
WriteU32(page, off, v) ==
    IF OutOfPage(off, 4) THEN WriteBytes(page, off, U32Bytes(v))
    ELSE [page EXCEPT ![off + 1] = v % 256,
                      ![off + 2] = (v \div 256) % 256,
                      ![off + 3] = (v \div 65536) % 256,
                      ![off + 4] = (v \div 16777216) % 256]

\* ptr::copy (memmove) of n bytes from offset src to offset dst.
MemMove(page, src, dst, n) ==
    [i \in 1..PAGE_SIZE |->
        IF i > dst /\ i <= dst + n THEN page[i - dst + src] ELSE page[i]]

\* The n bytes of the page from offset off.
Slice(page, off, n) == [i \in 1..n |-> page[off + i]]

\* The first n bytes of a byte string (all of it when it is shorter).
Take(bytes, n) == SubSeq(bytes, 1, Min(Len(bytes), n))

\* -------------------------------------------------------------- node codec
get_node_type(page) == IF page[NODE_TYPE_OFFSET + 1] = 0 THEN NodeInternal ELSE NodeLeaf
set_node_type(page, t) == [page EXCEPT ![NODE_TYPE_OFFSET + 1] = t]
is_node_root(page) == page[IS_ROOT_OFFSET + 1] # 0
\* A writer of the root flag that always sets it.
set_node_root_stuck(page, b) == [page EXCEPT ![IS_ROOT_OFFSET + 1] = 1]
set_node_root(page, b) == [page EXCEPT ![IS_ROOT_OFFSET + 1] = IF b THEN 1 ELSE 0]
get_parent_pointer(page) == ReadU32(page, PARENT_POINTER_OFFSET)
set_parent_pointer(page, p) == WriteU32(page, PARENT_POINTER_OFFSET, p)

\* A leaf that takes one cell more than fits in the page.
leaf_node_max_cells_and_one(cell_size) ==
    (PAGE_SIZE - LEAF_NODE_HEADER_SIZE) \div cell_size + 1

leaf_node_num_cells(page) == ReadU32(page, LEAF_NODE_NUM_CELLS_OFFSET)
set_leaf_node_num_cells(page, n) == WriteU32(page, LEAF_NODE_NUM_CELLS_OFFSET, n)
leaf_node_next_leaf(page) == ReadU32(page, LEAF_NODE_NEXT_LEAF_OFFSET)
\* A writer of next_leaf that writes nothing.
set_leaf_node_next_leaf_lost(page, n) == page
\* A link that always points at page 1.
set_leaf_node_next_leaf_one(page, n) == WriteU32(page, LEAF_NODE_NEXT_LEAF_OFFSET, 1)
set_leaf_node_next_leaf(page, n) == WriteU32(page, LEAF_NODE_NEXT_LEAF_OFFSET, n)
\* Byte offset of cell cell_num of a leaf.
leaf_node_cell(cell_num, cell_size) == LEAF_NODE_HEADER_SIZE + cell_num * cell_size
leaf_node_key(page, cell_num, cell_size) == ReadU32(page, leaf_node_cell(cell_num, cell_size))
leaf_node_max_cells(cell_size) == (PAGE_SIZE - LEAF_NODE_HEADER_SIZE) \div cell_size

\* An initialize_leaf_node that marks the leaf as root.
initialize_leaf_node_as_root(page) ==
    set_leaf_node_next_leaf(
        set_leaf_node_num_cells(set_node_root(set_node_type(page, NodeLeaf), TRUE), 0), 0)

initialize_leaf_node(page) ==
    set_leaf_node_next_leaf(
        set_leaf_node_num_cells(set_node_root(set_node_type(page, NodeLeaf), FALSE), 0), 0)

internal_node_num_keys(page) == ReadU32(page, INTERNAL_NODE_NUM_KEYS_OFFSET)
set_internal_node_num_keys(page, n) == WriteU32(page, INTERNAL_NODE_NUM_KEYS_OFFSET, n)
internal_node_right_child(page) == ReadU32(page, INTERNAL_NODE_RIGHT_CHILD_OFFSET)
set_internal_node_right_child(page, c) == WriteU32(page, INTERNAL_NODE_RIGHT_CHILD_OFFSET, c)

internal_node_child(page, child_num) ==
    IF child_num = internal_node_num_keys(page)
    THEN internal_node_right_child(page)
    ELSE ReadU32(page, INTERNAL_NODE_HEADER_SIZE + child_num * INTERNAL_NODE_CELL_SIZE)

set_internal_node_child(page, child_num, child) ==
    IF child_num = internal_node_num_keys(page)
    THEN set_internal_node_right_child(page, child)
    ELSE WriteU32(page, INTERNAL_NODE_HEADER_SIZE + child_num * INTERNAL_NODE_CELL_SIZE, child)

\* set_internal_node_child(page, child_num, _) writes behind the page buffer.
ChildWriteOutOfPage(page, child_num) ==
    /\ child_num # internal_node_num_keys(page)
    /\ OutOfPage(INTERNAL_NODE_HEADER_SIZE + child_num * INTERNAL_NODE_CELL_SIZE, 4)

internal_node_key(page, key_num) ==
    ReadU32(page, INTERNAL_NODE_HEADER_SIZE + key_num * INTERNAL_NODE_CELL_SIZE
                    + INTERNAL_NODE_CHILD_SIZE)

set_internal_node_key(page, key_num, key) ==
    WriteU32(page, INTERNAL_NODE_HEADER_SIZE + key_num * INTERNAL_NODE_CELL_SIZE
                    + INTERNAL_NODE_CHILD_SIZE, key)

internal_node_max_keys == (PAGE_SIZE - INTERNAL_NODE_HEADER_SIZE) \div INTERNAL_NODE_CELL_SIZE

initialize_internal_node(page) ==
    set_internal_node_right_child(
        set_internal_node_num_keys(set_node_root(set_node_type(page, NodeInternal), FALSE), 0), 0)

\* The binary search of internal_node_find_child, from the bounds (min, max).
RECURSIVE FindChildLoop(_, _, _, _)
FindChildLoop(page, key, min, max) ==
    IF min < max
    THEN LET mid == (min + max) \div 2
         IN  IF internal_node_key(page, mid) >= key
             THEN FindChildLoop(page, key, min, mid)
             ELSE FindChildLoop(page, key, mid + 1, max)
    ELSE min

internal_node_find_child(page, key) ==
    FindChildLoop(page, key, 0, internal_node_num_keys(page))

\* ------------------------------------------------------------------ pager
\* A pager is [file, file_length, num_pages, pages]: file is the sequence of
\* PAGE_SIZE blocks on disk, file_length the length recorded at open (or at
\* the last rollback), pages the populated cache slots (slot -> buffer).
PagerOpen(file) ==
    [file |-> file,
     file_length |-> Len(file) * PAGE_SIZE,
     num_pages |-> (Len(file) * PAGE_SIZE) \div PAGE_SIZE,
     pages |-> << >>]

\* A get_page that reads the block again when the slot is populated.
get_page_reread(pg, page_num) ==
    LET page == IF page_num * PAGE_SIZE < pg.file_length
                THEN pg.file[page_num + 1]
                ELSE ZeroPage
    IN  [pg EXCEPT !.pages = (page_num :> page) @@ [m \in DOMAIN pg.pages \ {page_num} |-> pg.pages[m]],
                   !.num_pages = IF page_num >= pg.num_pages
                                 THEN page_num + 1 ELSE pg.num_pages]

\* Pager::get_page for page_num < TABLE_MAX_PAGES: the pager afterwards.
get_page(pg, page_num) ==
    IF page_num \in DOMAIN pg.pages
    THEN pg
    ELSE LET page == IF page_num * PAGE_SIZE < pg.file_length
                     THEN pg.file[page_num + 1]
                     ELSE ZeroPage
         IN  [pg EXCEPT !.pages = (page_num :> page) @@ pg.pages,
                        !.num_pages = IF page_num >= pg.num_pages
                                      THEN page_num + 1 ELSE pg.num_pages]

\* A write_at that lands one block further on.
WriteBlockNext(file, n, page) ==
    [i \in 1..Max(Len(file), n + 2) |->
        IF i = n + 2 THEN page
        ELSE IF i <= Len(file) THEN file[i] ELSE ZeroPage]

\* write_at of one block at block number n: a write behind the end of the
\* file leaves a hole of zero blocks.
WriteBlock(file, n, page) ==
    [i \in 1..Max(Len(file), n + 1) |->
        IF i = n + 1 THEN page
        ELSE IF i <= Len(file) THEN file[i] ELSE ZeroPage]

flush(pg, page_num) ==
    IF page_num \in DOMAIN pg.pages
    THEN [pg EXCEPT !.file = WriteBlock(pg.file, page_num, pg.pages[page_num])]
    ELSE pg

RECURSIVE FlushFrom(_, _)
FlushFrom(pg, i) ==
    IF i < pg.num_pages THEN FlushFrom(flush(pg, i), i + 1) ELSE pg

\* A flush_all that writes nothing.
flush_all_skipped(pg) == pg

\* Pager::flush_all.
flush_all(pg) == FlushFrom(pg, 0)

\* Replace the cached buffer of a populated slot.
SetPage(pg, page_num, page) == [pg EXCEPT !.pages[page_num] = page]

\* ------------------------------------------------------------------ table
\* A column is [name, data_type, size, offset]; data_type is "INTEGER" or
\* "TEXT".  raw_cols is a sequence of [name, data_type, size] with size the
\* n of TEXT(n).
ColumnSize(rc) == IF rc.data_type = "INTEGER" THEN 4 ELSE rc.size

RECURSIVE OffsetOf(_, _)
OffsetOf(raw_cols, i) ==
    IF i = 1 THEN 0 ELSE OffsetOf(raw_cols, i - 1) + ColumnSize(raw_cols[i - 1])

Columns(raw_cols) ==
    [i \in 1..Len(raw_cols) |->
        [data_type |-> raw_cols[i].data_type,
         size |-> ColumnSize(raw_cols[i]),
         name |-> raw_cols[i].name,
         offset |-> OffsetOf(raw_cols, i)]]

\* Table::new on the file at `file` (the empty sequence for a file that does
\* not exist yet).
TableNew(file, raw_cols) ==
    LET row_size == OffsetOf(raw_cols, Len(raw_cols) + 1)
        pager == PagerOpen(file)
        pg1 == get_page(pager, 0)
        page == set_node_root(initialize_leaf_node(pg1.pages[0]), TRUE)
    IN  [cell_size |-> 4 + row_size,
         row_size |-> row_size,
         pager |-> IF pager.num_pages = 0
                   THEN flush(SetPage(pg1, 0, page), 0)
                   ELSE pager,
         columns |-> Columns(raw_cols),
         root_page_num |-> 0,
         defer_flush |-> FALSE,
         indexes |-> << >>]

\* The outcome of a call: res is "ok", an error kind, "panic" (index out of
\* bounds in Pager::get_page) or "hang" (a loop that never ends); oob tells
\* that a write reached behind a page buffer; full that internal_node_insert
\* found the parent full and returned without inserting.
Outcome(t, res) == [t |-> t, res |-> res, oob |-> FALSE, full |-> FALSE]

\* Table::find_leaf from page_num; visited are the pages already descended
\* through with this key (coming back to one of them never ends).
RECURSIVE FindLeafWalk(_, _, _, _)
FindLeafWalk(pg, key, page_num, visited) ==
    IF page_num >= TABLE_MAX_PAGES
    THEN [page_num |-> page_num, pager |-> pg, res |-> "panic"]
    ELSE IF page_num \in visited
    THEN [page_num |-> page_num, pager |-> pg, res |-> "hang"]
    ELSE LET pg1 == get_page(pg, page_num)
             page == pg1.pages[page_num]
         IN  IF get_node_type(page) = NodeLeaf
             THEN [page_num |-> page_num, pager |-> pg1, res |-> "ok"]
             ELSE FindLeafWalk(pg1, key,
                      internal_node_child(page, internal_node_find_child(page, key)),
                      visited \cup {page_num})

find_leaf(t, key) == FindLeafWalk(t.pager, key, t.root_page_num, {})

\* The binary search of Table::leaf_node_find.
RECURSIVE LeafFindLoop(_, _, _, _, _)
LeafFindLoop(page, key, cell_size, min, max) ==
    IF min < max
    THEN LET mid == (min + max) \div 2
             mid_key == leaf_node_key(page, mid, cell_size)
         IN  IF key = mid_key THEN [slot |-> mid, exists |-> TRUE]
             ELSE IF key < mid_key
             THEN LeafFindLoop(page, key, cell_size, min, mid)
             ELSE LeafFindLoop(page, key, cell_size, mid + 1, max)
    ELSE [slot |-> min, exists |-> FALSE]

leaf_node_find(page, key, cell_size) ==
    LeafFindLoop(page, key, cell_size, 0, leaf_node_num_cells(page))

\* A leaf write that is never flushed.
FlushNever(t, page_num) == t

\* A leaf write that is flushed whatever defer_flush says.
FlushAlways(t, page_num) == [t EXCEPT !.pager = flush(t.pager, page_num)]

\* The flush at the end of Table::leaf_node_insert and Table::delete.
FlushUnlessDeferred(t, page_num) ==
    IF t.defer_flush THEN t ELSE [t EXCEPT !.pager = flush(t.pager, page_num)]

\* Table::leaf_node_insert.
leaf_node_insert(t, page_num, slot, key, row_data) ==
    LET pg == get_page(t.pager, page_num)
        page == pg.pages[page_num]
        num_cells == leaf_node_num_cells(page)
        cell == leaf_node_cell(slot, t.cell_size)
        shifted == IF slot < num_cells
                   THEN MemMove(page, cell, cell + t.cell_size,
                                (num_cells - slot) * t.cell_size)
                   ELSE page
        keyed == WriteU32(shifted, cell, key)
        zeroed == WriteBytes(keyed, cell + 4, Zeros(t.row_size))
        copied == WriteBytes(zeroed, cell + 4, Take(row_data, t.row_size))
        counted == set_leaf_node_num_cells(copied, num_cells + 1)
    IN  FlushUnlessDeferred([t EXCEPT !.pager = SetPage(pg, page_num, counted)], page_num)

\* Table::internal_node_insert: the shift loop, for i from num_keys - 1 down
\* to insert_index.
RECURSIVE ShiftKeys(_, _, _)
ShiftKeys(page, i, insert_index) ==
    IF i < insert_index THEN page
    ELSE LET k == set_internal_node_key(page, i + 1, internal_node_key(page, i))
             c == set_internal_node_child(k, i + 2, internal_node_child(k, i + 1))
         IN  ShiftKeys(c, i - 1, insert_index)

\* The first i with key_i > new_key, else num_keys.
InsertIndex(page, new_key) ==
    LET num_keys == internal_node_num_keys(page)
        bigger == {i \in 0..(num_keys - 1) : internal_node_key(page, i) > new_key}
    IN  IF bigger = {} THEN num_keys
        ELSE CHOOSE i \in bigger : \A j \in bigger : i <= j

\* Table::internal_node_insert.
internal_node_insert(t, page_num, new_key, new_child) ==
    LET pg == get_page(t.pager, page_num)
        page == pg.pages[page_num]
        num_keys == internal_node_num_keys(page)
        insert_index == InsertIndex(page, new_key)
        shifted == ShiftKeys(page, num_keys - 1, insert_index)
        childed == set_internal_node_child(shifted, insert_index + 1, new_child)
        keyed == set_internal_node_key(childed, insert_index, new_key)
        counted == set_internal_node_num_keys(keyed, num_keys + 1)
        oob == \E c \in (insert_index + 1)..(num_keys + 1) : ChildWriteOutOfPage(page, c)
    IN  IF num_keys >= internal_node_max_keys
        THEN [Outcome([t EXCEPT !.pager = pg], "ok") EXCEPT !.full = TRUE]
        ELSE [Outcome([t EXCEPT !.pager = flush(SetPage(pg, page_num, counted),
                                                page_num)], "ok")
                EXCEPT !.oob = oob]

\* Table::create_new_root.
create_new_root(t, left_child, split_key, right_child) ==
    LET new_left_page_num == t.pager.num_pages
        pg0 == get_page(t.pager, 0)
        new_left == set_parent_pointer(set_node_root(pg0.pages[0], FALSE), 0)
        pg2 == get_page(SetPage(get_page(pg0, new_left_page_num), new_left_page_num,
                                new_left),
                        right_child)
        pg3 == SetPage(pg2, right_child, set_parent_pointer(pg2.pages[right_child], 0))
        r0 == set_node_root(initialize_internal_node(pg3.pages[0]), TRUE)
        r1 == set_internal_node_num_keys(r0, 1)
        r2 == set_internal_node_child(r1, 0, new_left_page_num)
        r3 == set_internal_node_key(r2, 0, split_key)
        r4 == set_internal_node_right_child(r3, right_child)
        pg4 == SetPage(pg3, 0, r4)
    IN  IF left_child # 0 THEN Outcome(t, "ok")
        ELSE IF t.pager.num_pages >= TABLE_MAX_PAGES THEN Outcome(t, "panic")
        ELSE Outcome([t EXCEPT !.pager =
                        flush(flush(flush(pg4, 0), new_left_page_num), right_child)],
                     "ok")

\* The cells (key, row bytes) of a leaf, in slot order.
LeafCells(page, cell_size, row_size) ==
    [i \in 1..leaf_node_num_cells(page) |->
        [key |-> leaf_node_key(page, i - 1, cell_size),
         data |-> Slice(page, leaf_node_cell(i - 1, cell_size) + 4, row_size)]]

\* Write cells[from .. from + count - 1] into slots 0 .. count - 1 of the
\* page: the key, then the first min(len, row_size) bytes of the data.
RECURSIVE WriteCells(_, _, _, _, _, _)
WriteCells(page, cells, from, count, cell_size, row_size) ==
    IF count = 0 THEN page
    ELSE LET i == count - 1
             cell == leaf_node_cell(i, cell_size)
             keyed == WriteU32(page, cell, cells[from + i].key)
             copied == WriteBytes(keyed, cell + 4, Take(cells[from + i].data, row_size))
         IN  WriteCells(copied, cells, from, count - 1, cell_size, row_size)

\* A push of the new cell at the end of all_cells, whatever the slot.
InsertAtEnd(seq, slot, x) == Append(seq, x)

\* all_cells.insert(slot, x) for a 0-based slot.
InsertAt(seq, slot, x) ==
    [i \in 1..(Len(seq) + 1) |->
        IF i <= slot THEN seq[i] ELSE IF i = slot + 1 THEN x ELSE seq[i - 1]]

\* Table::split_and_insert, last part: the flush of both leaves.
split_and_insert_flush(promoted, old_page_num, new_page_num) ==
    IF promoted.res # "ok" THEN promoted
    ELSE [promoted EXCEPT !.t.pager =
              flush(flush(promoted.t.pager, old_page_num), new_page_num)]

\* Table::split_and_insert, third part: the split key handed to a new root or
\* to the parent.  old2 and new2 are the two leaves as written.
split_and_insert_promote(t, old_page_num, pg1, left_count, old2, new2) ==
    LET new_page_num == t.pager.num_pages
        old_page == t.pager.pages[old_page_num]
        was_root == is_node_root(old_page)
        parent == get_parent_pointer(old_page)
        split_key == leaf_node_key(old2, left_count - 1, t.cell_size)
        pg2 == SetPage(SetPage(pg1, old_page_num, old2), new_page_num, new2)
    IN  split_and_insert_flush(
            IF was_root
            THEN create_new_root([t EXCEPT !.pager = pg2], old_page_num, split_key,
                                 new_page_num)
            ELSE internal_node_insert(
                    [t EXCEPT !.pager = SetPage(pg2, new_page_num,
                                                set_parent_pointer(new2, parent))],
                    parent, split_key, new_page_num),
            old_page_num, new_page_num)

\* Table::split_and_insert, second part: the new leaf initialised, the leaves
\* linked and the two halves of all_cells written.
split_and_insert_halves(t, old_page_num, all_cells, pg1) ==
    LET new_page_num == t.pager.num_pages
        old_page == t.pager.pages[old_page_num]
        left_count == (Len(all_cells) + 1) \div 2
        right_count == Len(all_cells) - left_count
        new0 == initialize_leaf_node(pg1.pages[new_page_num])
        old_next == leaf_node_next_leaf(old_page)
        old1 == set_leaf_node_next_leaf(old_page, new_page_num)
        new1 == set_leaf_node_next_leaf(new0, old_next)
    IN  split_and_insert_promote(
            t, old_page_num, pg1, left_count,
            set_leaf_node_num_cells(
                WriteCells(old1, all_cells, 1, left_count, t.cell_size, t.row_size),
                left_count),
            set_leaf_node_num_cells(
                WriteCells(new1, all_cells, left_count + 1, right_count,
                           t.cell_size, t.row_size),
                right_count))

\* Table::split_and_insert.
split_and_insert(t, old_page_num, key, row_data) ==
    LET cells == LeafCells(t.pager.pages[old_page_num], t.cell_size, t.row_size)
        after == {i \in 1..Len(cells) : cells[i].key > key}
        slot == IF after = {} THEN Len(cells)
                ELSE (CHOOSE i \in after : \A j \in after : i <= j) - 1
    IN  IF t.pager.num_pages >= TABLE_MAX_PAGES THEN Outcome(t, "panic")
        ELSE split_and_insert_halves(
                t, old_page_num,
                InsertAt(cells, slot, [key |-> key, data |-> row_data]),
                get_page(t.pager, t.pager.num_pages))

\* Table::insert once find_leaf returned f.
TableInsertAt(t, key, row_data, f) ==
    LET t1 == [t EXCEPT !.pager = f.pager]
        page == f.pager.pages[f.page_num]
        lf == leaf_node_find(page, key, t.cell_size)
    IN  IF f.res # "ok" THEN Outcome(t1, f.res)
        ELSE IF lf.exists THEN Outcome(t1, "duplicate")
        ELSE IF leaf_node_num_cells(page) >= leaf_node_max_cells(t.cell_size)
        THEN split_and_insert(t1, f.page_num, key, row_data)
        ELSE Outcome(leaf_node_insert(t1, f.page_num, lf.slot, key, row_data), "ok")

\* Table::insert.
TableInsert(t, key, row_data) == TableInsertAt(t, key, row_data, find_leaf(t, key))

\* Table::delete once find_leaf returned f.
TableDeleteAt(t, key, f) ==
    LET t1 == [t EXCEPT !.pager = f.pager]
        page == f.pager.pages[f.page_num]
        lf == leaf_node_find(page, key, t.cell_size)
        num_cells == leaf_node_num_cells(page)
        cell == leaf_node_cell(lf.slot, t.cell_size)
        shifted == IF lf.slot < num_cells - 1
                   THEN MemMove(page, cell + t.cell_size, cell,
                                (num_cells - lf.slot - 1) * t.cell_size)
                   ELSE page
        counted == set_leaf_node_num_cells(shifted, num_cells - 1)
    IN  IF f.res # "ok" THEN Outcome(t1, f.res)
        ELSE IF ~lf.exists THEN Outcome(t1, "not_found")
        ELSE Outcome(FlushUnlessDeferred(
                        [t1 EXCEPT !.pager = SetPage(f.pager, f.page_num, counted)],
                        f.page_num),
                     "ok")

\* Table::delete.
TableDelete(t, key) == TableDeleteAt(t, key, find_leaf(t, key))

\* Table::select_all, first loop: down to the leftmost leaf through child 0.
RECURSIVE LeftmostWalk(_, _, _)
LeftmostWalk(pg, page_num, visited) ==
    IF page_num >= TABLE_MAX_PAGES
    THEN [page_num |-> page_num, pager |-> pg, res |-> "panic"]
    ELSE IF page_num \in visited
    THEN [page_num |-> page_num, pager |-> pg, res |-> "hang"]
    ELSE LET pg1 == get_page(pg, page_num)
             page == pg1.pages[page_num]
         IN  IF get_node_type(page) = NodeLeaf
             THEN [page_num |-> page_num, pager |-> pg1, res |-> "ok"]
             ELSE LeftmostWalk(pg1, internal_node_child(page, 0), visited \cup {page_num})

\* Table::select_all, second loop: along next_leaf until it is 0.
RECURSIVE LeafChainWalk(_, _, _, _, _)
LeafChainWalk(pg, page_num, visited, rows, t) ==
    IF page_num >= TABLE_MAX_PAGES
    THEN [pager |-> pg, res |-> "panic", rows |-> rows, leaves |-> visited]
    ELSE IF page_num \in visited
    THEN [pager |-> pg, res |-> "hang", rows |-> rows, leaves |-> visited]
    ELSE LET pg1 == get_page(pg, page_num)
             page == pg1.pages[page_num]
             next_leaf == leaf_node_next_leaf(page)
             more == rows \o LeafCells(page, t.cell_size, t.row_size)
         IN  IF next_leaf = 0
             THEN [pager |-> pg1,
                   res |-> "ok",
                   rows |-> more,
                   leaves |-> visited \cup {page_num}]
             ELSE LeafChainWalk(pg1, next_leaf, visited \cup {page_num}, more, t)

\* Table::select_all: res, the rows (key, data) in scan order, the pager
\* afterwards and the leaves visited.
select_all(t) ==
    LET l == LeftmostWalk(t.pager, t.root_page_num, {})
    IN  IF l.res # "ok"
        THEN [pager |-> l.pager, res |-> l.res, rows |-> << >>, leaves |-> {}]
        ELSE LeafChainWalk(l.pager, l.page_num, {}, << >>, t)

\* ------------------------------------------------------------------ index
\* Strings are sequences of bytes (ASCII).  trim_matches(char::from(0)):
\* the NUL bytes at both ends are dropped.
RECURSIVE TrimLeft(_)
TrimLeft(b) == IF Len(b) > 0 /\ b[1] = 0 THEN TrimLeft(Tail(b)) ELSE b

RECURSIVE TrimRight(_)
TrimRight(b) ==
    IF Len(b) > 0 /\ b[Len(b)] = 0 THEN TrimRight(SubSeq(b, 1, Len(b) - 1)) ELSE b

TrimNul(b) == TrimRight(TrimLeft(b))

\* a <= b and a < b for strings: the bytewise order of Rust's str.
RECURSIVE StrLe(_, _)
StrLe(a, b) ==
    IF Len(a) = 0 THEN TRUE
    ELSE IF Len(b) = 0 THEN FALSE
    ELSE IF a[1] # b[1] THEN a[1] < b[1]
    ELSE StrLe(Tail(a), Tail(b))

StrLt(a, b) == StrLe(a, b) /\ a # b

\* Index::new on the index file at `file` (empty when there is none).
IndexNew(file, name, table_name, column_name, unique) ==
    LET pager == PagerOpen(file)
        pg1 == get_page(pager, 0)
        page == set_node_root(initialize_leaf_node(pg1.pages[0]), TRUE)
    IN  [name |-> name,
         pager |-> IF pager.num_pages = 0
                   THEN flush([SetPage(pg1, 0, page) EXCEPT !.num_pages = 1], 0)
                   ELSE pager,
         root_page_num |-> 0,
         table_name |-> table_name,
         column_name |-> column_name,
         unique |-> unique]

\* Index::read_cell on a page buffer: (key, row_id).
read_cell(page, cell_num) ==
    LET offset == leaf_node_cell(cell_num, INDEX_CELL_SIZE)
    IN  [key |-> TrimNul(Slice(page, offset, INDEX_KEY_SIZE)),
         row_id |-> ReadU32(page, offset + INDEX_KEY_SIZE)]

\* Index::read_internal_key on a page buffer.
read_internal_key(page, key_num) ==
    TrimNul(Slice(page,
                  INTERNAL_NODE_HEADER_SIZE
                    + key_num * (INTERNAL_NODE_CHILD_SIZE + INDEX_KEY_SIZE)
                    + INTERNAL_NODE_CHILD_SIZE,
                  INDEX_KEY_SIZE))

\* The child Index::find_leaf picks in an internal node: the first i with
\* key_value <= key_i, else num_keys.
IndexChildNum(page, key_value) ==
    LET num_keys == internal_node_num_keys(page)
        fits == {i \in 0..(num_keys - 1) : StrLe(key_value, read_internal_key(page, i))}
    IN  IF fits = {} THEN num_keys
        ELSE CHOOSE i \in fits : \A j \in fits : i <= j

RECURSIVE IndexFindLeafWalk(_, _, _, _)
IndexFindLeafWalk(pg, key_value, page_num, visited) ==
    IF page_num >= TABLE_MAX_PAGES
    THEN [page_num |-> page_num, pager |-> pg, res |-> "panic"]
    ELSE IF page_num \in visited
    THEN [page_num |-> page_num, pager |-> pg, res |-> "hang"]
    ELSE LET pg1 == get_page(pg, page_num)
             page == pg1.pages[page_num]
         IN  IF get_node_type(page) = NodeLeaf
             THEN [page_num |-> page_num, pager |-> pg1, res |-> "ok"]
             ELSE IndexFindLeafWalk(pg1, key_value,
                      internal_node_child(page, IndexChildNum(page, key_value)),
                      visited \cup {page_num})

\* Index::find_leaf.
index_find_leaf(ix, key_value) ==
    IndexFindLeafWalk(ix.pager, key_value, ix.root_page_num, {})

\* The row ids of the cells of a leaf whose key equals key_value, in order.
RECURSIVE MatchingRowIds(_, _, _)
MatchingRowIds(page, key_value, i) ==
    IF i >= leaf_node_num_cells(page) THEN << >>
    ELSE LET c == read_cell(page, i)
         IN  (IF c.key = key_value THEN << c.row_id >> ELSE << >>)
                \o MatchingRowIds(page, key_value, i + 1)

\* Index::find once find_leaf returned f.
index_find_in(ix, key_value, f) ==
    [res |-> f.res,
     ix |-> [ix EXCEPT !.pager = f.pager],
     ids |-> IF f.res = "ok"
             THEN MatchingRowIds(f.pager.pages[f.page_num], key_value, 0)
             ELSE << >>]

\* Index::find: res, the row ids found and the index afterwards.
index_find(ix, key_value) == index_find_in(ix, key_value, index_find_leaf(ix, key_value))

\* Index::find_slot: the first slot whose key is >= key_value, else num_cells.
find_slot(page, key_value) ==
    LET num_cells == leaf_node_num_cells(page)
        fits == {i \in 0..(num_cells - 1) : StrLe(key_value, read_cell(page, i).key)}
    IN  IF fits = {} THEN num_cells
        ELSE CHOOSE i \in fits : \A j \in fits : i <= j

\* The bytes of an index cell: the key cut to INDEX_KEY_SIZE and padded with
\* zeros, then the row id.
IndexCellBytes(key_value, row_id) ==
    LET k == Take(key_value, INDEX_KEY_SIZE)
    IN  k \o Zeros(INDEX_KEY_SIZE - Len(k)) \o U32Bytes(row_id)

\* Index::leaf_node_insert.
index_leaf_node_insert(pager, page_num, slot, key_value, row_id) ==
    LET pg == get_page(pager, page_num)
        page == pg.pages[page_num]
        num_cells == leaf_node_num_cells(page)
        cell == leaf_node_cell(slot, INDEX_CELL_SIZE)
        shifted == IF slot < num_cells
                   THEN MemMove(page, cell, cell + INDEX_CELL_SIZE,
                                (num_cells - slot) * INDEX_CELL_SIZE)
                   ELSE page
        written == WriteBytes(shifted, cell, IndexCellBytes(key_value, row_id))
        counted == set_leaf_node_num_cells(written, num_cells + 1)
    IN  flush(SetPage(pg, page_num, counted), page_num)

\* Index::create_new_root.
index_create_new_root(ix, left_child, split_key, right_child) ==
    LET new_root_num == ix.pager.num_pages
        pg0 == get_page([ix.pager EXCEPT !.num_pages = @ + 1], new_root_num)
        r0 == set_internal_node_num_keys(
                  set_node_root(initialize_internal_node(pg0.pages[new_root_num]),
                                TRUE), 1)
        r1 == set_internal_node_child(r0, 0, left_child)
        k == Take(split_key, INDEX_KEY_SIZE)
        r2 == WriteBytes(r1, INTERNAL_NODE_HEADER_SIZE + INTERNAL_NODE_CHILD_SIZE,
                         k \o Zeros(INDEX_KEY_SIZE - Len(k)))
        new_root == set_internal_node_right_child(r2, right_child)
        pg1 == get_page(SetPage(pg0, new_root_num, new_root), ix.root_page_num)
        old_root == set_parent_pointer(set_node_root(pg1.pages[ix.root_page_num], FALSE),
                                       new_root_num)
        pg3 == get_page(SetPage(pg1, ix.root_page_num, old_root), right_child)
        right_page == set_parent_pointer(pg3.pages[right_child], new_root_num)
    IN  [ix EXCEPT !.root_page_num = new_root_num,
                   !.pager = flush(flush(flush(SetPage(pg3, right_child, right_page),
                                               new_root_num),
                                         left_child),
                                   right_child)]

\* Write cells[from ..] of an index leaf into slots 0 .. count - 1.
RECURSIVE WriteIndexCells(_, _, _, _)
WriteIndexCells(page, cells, from, count) ==
    IF count = 0 THEN page
    ELSE WriteIndexCells(
            WriteBytes(page, leaf_node_cell(count - 1, INDEX_CELL_SIZE),
                       IndexCellBytes(cells[from + count - 1].key,
                                      cells[from + count - 1].row_id)),
            cells, from, count - 1)

\* Index::split_and_insert, last part: a new root when the old leaf was the
\* root.
index_split_and_insert_promote(ix, old_page_num, new_page_num, mid_key, pg3) ==
    LET was_root == is_node_root(pg3.pages[old_page_num])
    IN  IF was_root /\ pg3.num_pages >= TABLE_MAX_PAGES
        THEN [res |-> "panic", ix |-> [ix EXCEPT !.pager = pg3]]
        ELSE [res |-> "ok",
              ix |-> IF was_root
                     THEN index_create_new_root([ix EXCEPT !.pager = pg3],
                                                old_page_num, mid_key, new_page_num)
                     ELSE [ix EXCEPT !.pager = pg3]]

\* Index::split_and_insert, second part: mid_key is the first key of the new
\* leaf; the new cell goes to the old leaf when its key is below mid_key, else
\* to the new leaf; both are flushed.
index_split_and_insert_target(ix, old_page_num, new_page_num, key_value, row_id, pg1) ==
    LET mid_key == read_cell(pg1.pages[new_page_num], 0).key
        target == IF StrLt(key_value, mid_key) THEN old_page_num ELSE new_page_num
    IN  index_split_and_insert_promote(
            ix, old_page_num, new_page_num, mid_key,
            flush(flush(index_leaf_node_insert(pg1, target,
                                               find_slot(pg1.pages[target], key_value),
                                               key_value, row_id),
                        old_page_num), new_page_num))

\* Index::split_and_insert.
index_split_and_insert(ix, old_page_num, key_value, row_id) ==
    LET new_page_num == ix.pager.num_pages
        pg0 == get_page([ix.pager EXCEPT !.num_pages = @ + 1], new_page_num)
        old0 == pg0.pages[old_page_num]
        num_cells == leaf_node_num_cells(old0)
        split_point == num_cells \div 2
        cells == [i \in 1..num_cells |-> read_cell(old0, i - 1)]
        new1 == set_leaf_node_num_cells(
                    WriteIndexCells(initialize_leaf_node(pg0.pages[new_page_num]),
                                    cells, split_point + 1, num_cells - split_point),
                    num_cells - split_point)
        old1 == set_leaf_node_next_leaf(set_leaf_node_num_cells(old0, split_point),
                                        new_page_num)
    IN  IF ix.pager.num_pages >= TABLE_MAX_PAGES THEN [res |-> "panic", ix |-> ix]
        ELSE index_split_and_insert_target(
                ix, old_page_num, new_page_num, key_value, row_id,
                SetPage(SetPage(pg0, old_page_num, old1), new_page_num,
                        set_leaf_node_next_leaf(new1, leaf_node_next_leaf(old0))))

\* Index::insert once the UNIQUE check returned found.
IndexInsertChecked(ix, key_value, row_id, found) ==
    LET f == index_find_leaf(found.ix, key_value)
        ix1 == [ix EXCEPT !.pager = f.pager]
    IN  IF found.res # "ok" THEN [res |-> found.res, ix |-> found.ix]
        ELSE IF Len(found.ids) > 0 THEN [res |-> "unique", ix |-> found.ix]
        ELSE IF f.res # "ok" THEN [res |-> f.res, ix |-> ix1]
        ELSE IF leaf_node_num_cells(f.pager.pages[f.page_num])
                   >= leaf_node_max_cells(INDEX_CELL_SIZE)
        THEN index_split_and_insert(ix1, f.page_num, key_value, row_id)
        ELSE [res |-> "ok",
              ix |-> [ix1 EXCEPT !.pager =
                         index_leaf_node_insert(f.pager, f.page_num,
                             find_slot(f.pager.pages[f.page_num], key_value),
                             key_value, row_id)]]

\* Index::insert: res is "ok", "unique", "panic" or "hang".
IndexInsert(ix, key_value, row_id) ==
    IndexInsertChecked(ix, key_value, row_id,
                       IF ix.unique THEN index_find(ix, key_value)
                       ELSE [res |-> "ok", ix |-> ix, ids |-> << >>])

\* Index::delete once find_leaf returned f: the first cell of the leaf with
\* this key and this row id is taken out, the cells behind it move left.
IndexDeleteAt(ix, key_value, row_id, f) ==
    LET ix1 == [ix EXCEPT !.pager = f.pager]
        page == f.pager.pages[f.page_num]
        num_cells == leaf_node_num_cells(page)
        hits == {i \in 0..(num_cells - 1) :
                    /\ read_cell(page, i).key = key_value
                    /\ read_cell(page, i).row_id = row_id}
        i == CHOOSE h \in hits : \A j \in hits : h <= j
        shifted == MemMove(page, leaf_node_cell(i + 1, INDEX_CELL_SIZE),
                           leaf_node_cell(i, INDEX_CELL_SIZE),
                           (num_cells - 1 - i) * INDEX_CELL_SIZE)
        counted == set_leaf_node_num_cells(shifted, num_cells - 1)
    IN  IF f.res # "ok" THEN [res |-> f.res, ix |-> ix1]
        ELSE IF hits = {} THEN [res |-> "ok", ix |-> ix1]
        ELSE [res |-> "ok",
              ix |-> [ix1 EXCEPT !.pager =
                         flush(SetPage(f.pager, f.page_num, counted), f.page_num)]]

\* Index::delete.
IndexDelete(ix, key_value, row_id) ==
    IndexDeleteAt(ix, key_value, row_id, index_find_leaf(ix, key_value))

\* ------------------------------------------------------------------ state
VARIABLES
    tables,          \* Executor.tables: table name -> Table
    in_transaction,  \* Executor.in_transaction
    status,          \* "running", or how the process ended: "panic", "hang", "abort"
    last,            \* the last call or statement and its result
    hist,            \* history: what was offered and what succeeded
    disk             \* the files no open table or index holds: metadata.json
                     \* of the connected database, table files, index files

vars == << tables, in_transaction, status, last, hist, disk >>

\* users(id INTEGER, name TEXT(4)): row_size 8, cell_size 12.
UsersCols ==
    << [data_type |-> "INTEGER", size |-> 0, name |-> "id"],
       [data_type |-> "TEXT", size |-> 4, name |-> "name"] >>

Keys == 1..MaxKey

TreesKeys == 1..MaxTreeKey

\* Row buffers handed to Table::insert: a full row (name "\x01") and a
\* buffer shorter than row_size.
RowChoices == { << 0, 0, 0, 0, 1, 0, 0, 0 >>, << 7 >> }

\* How the process goes on after a call: a panic or an endless loop ends it;
\* a write behind a page buffer is undefined behaviour, which either goes
\* unnoticed or aborts the process.
StatusAfter(o) ==
    IF o.res \in {"panic", "hang"} THEN {o.res}
    ELSE IF o.oob THEN {"running", "abort"}
    ELSE {"running"}

\* The keys select_all returns, in scan order.
ScanKeys(t) == LET s == select_all(t) IN [i \in 1..Len(s.rows) |-> s.rows[i].key]

StoredKeys(t) == LET s == ScanKeys(t) IN {s[i] : i \in 1..Len(s)}

NoCall == [res |-> "ok", op |-> "none", table |-> "", values |-> << >>]

\* hist.offered: the keys offered to insert (kept while no delete was
\* called); ins_ok, del_ok: the calls that returned Ok; deleted: delete was
\* called; stmts: the statements executed; begin: the file of every table as
\* it was when the last BEGIN succeeded; ok_values: the second value of
\* every INSERT that succeeded on the indexed table, in order; rows: what
\* SELECT * returned for every table when the last BEGIN succeeded; plain:
\* "empty" after BEGIN, "changed" once an INSERT or DELETE succeeded, "none"
\* outside a transaction and once the transaction saw any other statement or
\* an INSERT that split a leaf; full: the calls of Table::insert in which
\* internal_node_insert found the parent full; indexes: the indexes of u as
\* they were when the last BEGIN succeeded on the indexed table.
NoHist == [indexes |-> << >>,
           full |-> 0,
           rows |-> << >>,
           offered |-> {},
           ins_ok |-> 0,
           del_ok |-> 0,
           deleted |-> FALSE,
           stmts |-> 0,
           begin |-> << >>,
           ok_values |-> << >>,
           plain |-> "none"]

\* The catalog of the open tables: the columns of every table (name, type,
\* size, in order) and its indexes (name, column, unique flag).
Catalog(tbls) ==
    [n \in DOMAIN tbls |->
        [columns |-> [i \in 1..Len(tbls[n].columns) |->
                         [data_type |-> tbls[n].columns[i].data_type,
                          size |-> tbls[n].columns[i].size,
                          name |-> tbls[n].columns[i].name]],
         indexes |-> [i \in DOMAIN tbls[n].indexes |->
                         [column_name |-> tbls[n].indexes[i].column_name,
                          unique |-> tbls[n].indexes[i].unique]]]]

\* No database: the table or the index is used on its own.
NoDirectory == [metadata |-> << >>, files |-> << >>, idx |-> << >>]

\* Calls that changed the table so far.
Mutations == hist.ins_ok + hist.del_ok

\* ------------------------------------------- the table on its own (table.rs)
InitTable ==
    /\ tables = ("t" :> TableNew(<< >>, UsersCols))
    /\ in_transaction = FALSE
    /\ status = "running"
    /\ last = NoCall
    /\ hist = NoHist
    /\ disk = NoDirectory

\* What a call of Table::insert leaves behind.
InsertCalled(key, o) ==
    /\ tables' = [tables EXCEPT !["t"] = o.t]
    /\ status' \in StatusAfter(o)
    /\ hist' = [hist EXCEPT !.offered = IF hist.deleted THEN @ ELSE @ \cup {key},
                            !.ins_ok = IF o.res = "ok" THEN @ + 1 ELSE @,
                            !.full = IF o.full THEN @ + 1 ELSE @]

\* A call of Table::insert(key, row_data).
CallInsert(key, row_data) ==
    /\ status = "running"
    /\ Mutations < MaxOps
    /\ InsertCalled(key, TableInsert(tables["t"], key, row_data))
    /\ UNCHANGED << in_transaction, last, disk >>

\* What a call of Table::delete leaves behind.
DeleteCalled(o) ==
    /\ tables' = [tables EXCEPT !["t"] = o.t]
    /\ status' \in StatusAfter(o)
    /\ hist' = [hist EXCEPT !.offered = {},
                            !.deleted = TRUE,
                            !.del_ok = IF o.res = "ok" THEN @ + 1 ELSE @]

\* A call of Table::delete(key).
CallDelete(key) ==
    /\ status = "running"
    /\ Mutations < MaxOps
    /\ DeleteCalled(TableDelete(tables["t"], key))
    /\ UNCHANGED << in_transaction, last, disk >>

NextTable ==
    \/ \E key \in Keys, row_data \in RowChoices : CallInsert(key, row_data)
    \/ \E key \in Keys : CallDelete(key)

SpecTable == InitTable /\ [][NextTable]_vars

\* ------------------------------- calls on the table, each one recorded
\* What a call of Table::insert or Table::delete leaves behind, failed calls
\* included.
TableCalled(op, key, row_data, o) ==
    /\ tables' = [tables EXCEPT !["t"] = o.t]
    /\ status' \in StatusAfter(o)
    /\ last' = [res |-> o.res, op |-> op, table |-> "t", values |-> << key, row_data >>]
    /\ hist' = [hist EXCEPT !.stmts = @ + 1,
                            !.ins_ok = IF op = "Table::insert" /\ o.res = "ok"
                                       THEN @ + 1 ELSE @,
                            !.del_ok = IF op = "Table::delete" /\ o.res = "ok"
                                       THEN @ + 1 ELSE @,
                            !.full = IF o.full THEN @ + 1 ELSE @]
    /\ UNCHANGED << in_transaction, disk >>

\* Table::insert(key, row_data).
RecordedInsert(key, row_data) ==
    /\ status = "running"
    /\ hist.stmts < MaxCalls
    /\ TableCalled("Table::insert", key, row_data, TableInsert(tables["t"], key, row_data))

\* Table::delete(key).
RecordedDelete(key) ==
    /\ status = "running"
    /\ hist.stmts < MaxCalls
    /\ TableCalled("Table::delete", key, << >>, TableDelete(tables["t"], key))

NextCalls ==
    \/ \E key \in 1..MaxCallKey, row_data \in RowChoices : RecordedInsert(key, row_data)
    \/ \E key \in 1..MaxCallKey : RecordedDelete(key)

SpecCalls == InitTable /\ [][NextCalls]_vars

\* ------------------------------------------------- claims on the table tree
\* The table the calls act on.
T == tables["t"]

\* The buffer get_page(page_num) would hand out in this state.
PageOf(t, page_num) == get_page(t.pager, page_num).pages[page_num]

StrictlyAscending(keys) == \A i \in 1..(Len(keys) - 1) : keys[i] < keys[i + 1]

NoRepeats(keys) == \A i, j \in 1..Len(keys) : i # j => keys[i] # keys[j]

\* The keys of the leaf on page page_num.
LeafKeySet(t, page_num) ==
    LET cells == LeafCells(PageOf(t, page_num), t.cell_size, t.row_size)
    IN  {cells[i].key : i \in 1..Len(cells)}

IsLeafPage(t, page_num) ==
    /\ page_num < t.pager.num_pages
    /\ get_node_type(PageOf(t, page_num)) = NodeLeaf

RootIsInternal(t) == get_node_type(PageOf(t, 0)) = NodeInternal

\* C1: after any sequence of Table::insert and Table::delete calls,
\* select_all returns the keys in strictly ascending order.
C1_ScanAscending ==
    status = "running" =>
        /\ select_all(T).res = "ok"
        /\ StrictlyAscending(ScanKeys(T))

\* C2: in a sequence of inserts, as many inserts succeed as distinct keys were
\* offered: select_all never holds a key twice and an insert of a stored key
\* is rejected.
C2_NoDuplicates ==
    (status = "running" /\ ~hist.deleted) =>
        /\ hist.ins_ok = Cardinality(hist.offered)
        /\ NoRepeats(ScanKeys(T))
        /\ \A key \in StoredKeys(T), row_data \in RowChoices :
              TableInsert(T, key, row_data).res = "duplicate"

\* C6: the walk along next_leaf from the leftmost leaf visits as many cells
\* as inserts succeeded minus deletes succeeded.
C6_ChainComplete ==
    status = "running" =>
        /\ select_all(T).res = "ok"
        /\ Len(select_all(T).rows) = hist.ins_ok - hist.del_ok

C6_Witness ==
    /\ status = "running"
    /\ hist.del_ok >= 1
    /\ hist.ins_ok >= 5
    /\ Cardinality(select_all(T).leaves) >= 3

\* C7: max_cells + 1 distinct keys inserted into a fresh table leave page 0 an
\* internal root with one key and two leaf children, both not root and with
\* parent 0, the keys of child 0 at most the root key and the keys of the
\* right child above it.
C7_FirstSplit ==
    (/\ status = "running"
     /\ ~hist.deleted
     /\ hist.ins_ok = leaf_node_max_cells(T.cell_size) + 1
     /\ Cardinality(hist.offered) = hist.ins_ok) =>
        LET root == PageOf(T, 0)
            left == internal_node_child(root, 0)
            right == internal_node_right_child(root)
        IN  /\ get_node_type(root) = NodeInternal
            /\ is_node_root(root)
            /\ internal_node_num_keys(root) = 1
            /\ left # right
            /\ \A c \in {left, right} :
                  /\ c # 0
                  /\ IsLeafPage(T, c)
                  /\ ~is_node_root(PageOf(T, c))
                  /\ get_parent_pointer(PageOf(T, c)) = 0
            /\ \A k \in LeafKeySet(T, left) : k <= internal_node_key(root, 0)
            /\ \A k \in LeafKeySet(T, right) : k > internal_node_key(root, 0)
            /\ LeafKeySet(T, left) \cup LeafKeySet(T, right) = hist.offered

C7_Witness ==
    /\ status = "running"
    /\ ~hist.deleted
    /\ hist.ins_ok = leaf_node_max_cells(T.cell_size) + 1
    /\ Cardinality(hist.offered) = hist.ins_ok
    /\ RootIsInternal(T)

\* C8: after any sequence of inserts, key i of the internal root is the
\* largest key of the leaf behind child i and smaller than every key of the
\* leaf behind child i + 1.
C8_InternalKeys ==
    (status = "running" /\ ~hist.deleted /\ RootIsInternal(T)) =>
        LET root == PageOf(T, 0)
        IN  \A i \in 0..(internal_node_num_keys(root) - 1) :
              LET c == internal_node_child(root, i)
                  d == internal_node_child(root, i + 1)
              IN  /\ c < TABLE_MAX_PAGES /\ d < TABLE_MAX_PAGES
                  /\ IsLeafPage(T, c) /\ IsLeafPage(T, d)
                  /\ internal_node_key(root, i) \in LeafKeySet(T, c)
                  /\ \A k \in LeafKeySet(T, c) : k <= internal_node_key(root, i)
                  /\ \A k \in LeafKeySet(T, d) : internal_node_key(root, i) < k


\* ------------------------------------------------- statements (executor.rs)
\* parser::Value: Integer(n) or Text(s).  The i64 of Integer is kept in two
\* parts, hi * 2^32 + n with 0 <= hi and n below 2^31 (negative only with
\* hi = 0), so that a value of more than 32 bits can be written down.
WideInteger(hi, n) == [n |-> n, s |-> << >>, hi |-> hi, kind |-> "Integer"]

IntegerValue(n) == WideInteger(0, n)

TextValue(s) == [n |-> 0, s |-> s, hi |-> 0, kind |-> "Text"]

\* The digits of n >= 0, as ASCII.
RECURSIVE Digits(_)
Digits(n) ==
    IF n < 10 THEN << 48 + n >> ELSE Digits(n \div 10) \o << 48 + (n % 10) >>

\* i64::to_string and u32::to_string.
DecimalBytes(n) == IF n < 0 THEN << 45 >> \o Digits(0 - n) ELSE Digits(n)

RECURSIVE DigitsValue(_)
DigitsValue(b) ==
    IF Len(b) = 0 THEN 0
    ELSE DigitsValue(SubSeq(b, 1, Len(b) - 1)) * 10 + (b[Len(b)] - 48)

IsDigits(b) == Len(b) > 0 /\ \A i \in 1..Len(b) : b[i] \in 48..57

\* str::parse::<u32>: an optional '+' and digits.
ParseU32(b) ==
    LET d == IF Len(b) > 0 /\ b[1] = 43 THEN Tail(b) ELSE b
    IN  IF IsDigits(d) THEN [n |-> DigitsValue(d), ok |-> TRUE]
        ELSE [n |-> 0, ok |-> FALSE]

\* str::parse::<i64>: an optional sign and digits.
ParseI64(b) ==
    LET signed == Len(b) > 0 /\ b[1] \in {43, 45}
        d == IF signed THEN Tail(b) ELSE b
    IN  IF IsDigits(d)
        THEN [n |-> IF signed /\ b[1] = 45 THEN 0 - DigitsValue(d) ELSE DigitsValue(d),
              ok |-> TRUE]
        ELSE [n |-> 0, ok |-> FALSE]

\* The sum of two numbers given by their decimal digits (ASCII), the last
\* digit first in the recursion; carry is 0 or 1.
RECURSIVE AddDigits(_, _, _)
AddDigits(a, b, carry) ==
    IF Len(a) = 0 /\ Len(b) = 0 THEN (IF carry = 0 THEN << >> ELSE << 48 + carry >>)
    ELSE LET da == IF Len(a) = 0 THEN 0 ELSE a[Len(a)] - 48
             db == IF Len(b) = 0 THEN 0 ELSE b[Len(b)] - 48
             sum == da + db + carry
         IN  AddDigits(IF Len(a) = 0 THEN a ELSE SubSeq(a, 1, Len(a) - 1),
                       IF Len(b) = 0 THEN b ELSE SubSeq(b, 1, Len(b) - 1),
                       sum \div 10) \o << 48 + (sum % 10) >>

\* i64::to_string of hi * 2^32 + n: 4294967296 added hi times.
RECURSIVE WideDecimalBytes(_, _)
WideDecimalBytes(hi, n) ==
    IF hi = 0 THEN DecimalBytes(n)
    ELSE AddDigits(WideDecimalBytes(hi - 1, n),
                   << 52, 50, 57, 52, 57, 54, 55, 50, 57, 54 >>, 0)

\* The bytes a value is stored and compared as.
ValueBytes(v) == IF v.kind = "Integer" THEN WideDecimalBytes(v.hi, v.n) ELSE v.s

\* The key execute_insert takes from values[0]: `*n as u32` keeps the low 32
\* bits of an Integer, which are n (keys here stay below 2^31 and are not
\* negative).
IdOf(v) == IF v.kind = "Integer" THEN [n |-> v.n, ok |-> TRUE] ELSE ParseU32(v.s)

\* The index of the first column with this name, 0 when there is none.
ColumnIndex(columns, name) ==
    LET found == {i \in 1..Len(columns) : columns[i].name = name}
    IN  IF found = {} THEN 0 ELSE CHOOSE i \in found : \A j \in found : i <= j

\* The text of a column of a row: the bytes with the NULs at both ends cut.
ColumnText(row_data, col) == TrimNul(Slice(row_data, col.offset, col.size))

\* execute_insert, the row buffer: zeros, then for every column but the first
\* and those named "id" the first min(len, size) bytes of its value.
RECURSIVE BuildRow(_, _, _, _)
BuildRow(row_data, columns, values, i) ==
    IF i > Len(columns) THEN row_data
    ELSE IF columns[i].name = "id" \/ i = 1 \/ i > Len(values)
    THEN BuildRow(row_data, columns, values, i + 1)
    ELSE LET bytes == Take(ValueBytes(values[i]), columns[i].size)
         IN  BuildRow([j \in 1..Len(row_data) |->
                          IF j > columns[i].offset /\ j <= columns[i].offset + Len(bytes)
                          THEN bytes[j - columns[i].offset]
                          ELSE row_data[j]],
                      columns, values, i + 1)

\* The result of a statement: the tables afterwards, res ("ok" or the error),
\* oob (a write behind a page buffer happened) and the rows returned.
StmtResult(tbls, res) == [res |-> res, oob |-> FALSE, rows |-> << >>, tables |-> tbls]

\* The result of a statement that ends with the outcome o on one table.
TableResult(tbls, table_name, o) == StmtResult([tbls EXCEPT ![table_name] = o.t], o.res)

\* execute_insert, the loop over the UNIQUE indexes: names are the indexes
\* still to be asked, found is what Index::find returned for index name.
RECURSIVE UniqueCheck(_, _, _)
UniqueChecked(table, row_data, names, name, found) ==
    IF found.res # "ok"
    THEN [t |-> [table EXCEPT !.indexes[name] = found.ix], res |-> found.res]
    ELSE IF Len(found.ids) > 0
    THEN [t |-> [table EXCEPT !.indexes[name] = found.ix], res |-> "unique"]
    ELSE UniqueCheck([table EXCEPT !.indexes[name] = found.ix], row_data, names \ {name})

UniqueCheck(table, row_data, names) ==
    IF names = {} THEN [t |-> table, res |-> "ok"]
    ELSE LET name == CHOOSE n \in names : TRUE
             c == ColumnIndex(table.columns, table.indexes[name].column_name)
         IN  IF ~table.indexes[name].unique \/ c = 0
             THEN UniqueCheck(table, row_data, names \ {name})
             ELSE UniqueChecked(table, row_data, names, name,
                                index_find(table.indexes[name],
                                           ColumnText(row_data, table.columns[c])))

\* execute_insert, the loop that adds the row to every index; an Err of
\* Index::insert is dropped.  o is what Index::insert returned for index name.
RECURSIVE UpdateIndexes(_, _, _, _)
IndexUpdated(table, row_data, id, names, name, o) ==
    IF o.res \in {"panic", "hang"}
    THEN [t |-> [table EXCEPT !.indexes[name] = o.ix], res |-> o.res]
    ELSE UpdateIndexes([table EXCEPT !.indexes[name] = o.ix], row_data, id,
                       names \ {name})

UpdateIndexes(table, row_data, id, names) ==
    IF names = {} THEN [t |-> table, res |-> "ok"]
    ELSE LET name == CHOOSE n \in names : TRUE
             c == ColumnIndex(table.columns, table.indexes[name].column_name)
         IN  IF c = 0 THEN UpdateIndexes(table, row_data, id, names \ {name})
             ELSE IndexUpdated(table, row_data, id, names, name,
                               IndexInsert(table.indexes[name],
                                           ColumnText(row_data, table.columns[c]), id))

\* execute_insert, last part: o is what Table::insert returned.
execute_insert_stored(tbls, table_name, id, row_data, o) ==
    IF o.res # "ok"
    THEN [TableResult(tbls, table_name, o) EXCEPT !.oob = o.oob]
    ELSE [TableResult(tbls, table_name,
                      UpdateIndexes(o.t, row_data, id, DOMAIN o.t.indexes))
            EXCEPT !.oob = o.oob]

\* An execute_insert that inserts the row into the table before it looks at
\* what the UNIQUE checks returned.
execute_insert_unchecked(tbls, table_name, id, row_data, u) ==
    IF u.res # "ok"
    THEN [TableResult(tbls, table_name, TableInsert(u.t, id, row_data))
            EXCEPT !.res = u.res]
    ELSE execute_insert_stored(tbls, table_name, id, row_data,
                               TableInsert(u.t, id, row_data))

\* execute_insert, second part: u is what the UNIQUE checks returned.
execute_insert_checked(tbls, table_name, id, row_data, u) ==
    IF u.res # "ok" THEN TableResult(tbls, table_name, u)
    ELSE execute_insert_stored(tbls, table_name, id, row_data,
                               TableInsert(u.t, id, row_data))

\* Executor::execute_insert.
execute_insert(tbls, table_name, values) ==
    LET table == tbls[table_name]
        row_data == BuildRow(Zeros(table.row_size), table.columns, values, 1)
    IN  IF table_name \notin DOMAIN tbls THEN StmtResult(tbls, "table_not_found")
        ELSE IF Len(values) = 0 THEN StmtResult(tbls, "no_values")
        ELSE IF ~IdOf(values[1]).ok THEN StmtResult(tbls, "invalid_id")
        ELSE execute_insert_checked(tbls, table_name, IdOf(values[1]).n, row_data,
                                    UniqueCheck(table, row_data, DOMAIN table.indexes))

\* A WHERE clause: none, or one condition `column = value`.
NoWhere == [present |-> FALSE, column |-> "", value |-> IntegerValue(0)]

WhereEquals(column, value) == [present |-> TRUE, column |-> column, value |-> value]

\* evaluate_where for such a clause; a condition on a column the table does
\* not have is skipped.
evaluate_where(where_clause, id, row_data, columns) ==
    IF ~where_clause.present THEN TRUE
    ELSE LET c == ColumnIndex(columns, where_clause.column)
             cond_value == ValueBytes(where_clause.value)
         IN  IF Len(columns) > 0 /\ where_clause.column = columns[1].name
             THEN DecimalBytes(id) = cond_value
             ELSE IF c # 0 THEN ColumnText(row_data, columns[c]) = cond_value
             ELSE TRUE

\* The rows of all_rows the clause selects, in order.
RECURSIVE Matching(_, _, _, _)
Matching(all_rows, where_clause, columns, i) ==
    IF i > Len(all_rows) THEN << >>
    ELSE (IF evaluate_where(where_clause, all_rows[i].key, all_rows[i].data, columns)
          THEN << all_rows[i] >> ELSE << >>)
            \o Matching(all_rows, where_clause, columns, i + 1)

\* execute_select once Table::select_all returned s.
execute_select_rows(tbls, table_name, where_clause, s) ==
    LET columns == tbls[table_name].columns
        m == Matching(s.rows, where_clause, columns, 1)
    IN  [res |-> s.res,
         oob |-> FALSE,
         rows |-> IF s.res # "ok" THEN << >>
                  ELSE [i \in 1..Len(m) |->
                          [c \in 1..Len(columns) |->
                              IF columns[c].name = columns[1].name
                              THEN DecimalBytes(m[i].key)
                              ELSE ColumnText(m[i].data, columns[c])]],
         tables |-> [tbls EXCEPT ![table_name].pager = s.pager]]

\* Executor::execute_select without joins, all columns: each row is the
\* sequence of its column strings.
execute_select(tbls, table_name, where_clause) ==
    IF table_name \notin DOMAIN tbls THEN StmtResult(tbls, "table_not_found")
    ELSE execute_select_rows(tbls, table_name, where_clause,
                             select_all(tbls[table_name]))

\* Executor::execute_delete, the loop over ids_to_delete: it stops at the
\* first Err of Table::delete.  o is what Table::delete returned for row i.
RECURSIVE DeleteEach(_, _, _)
DeleteNext(rows, i, o) ==
    IF o.res # "ok" THEN [t |-> o.t, res |-> o.res]
    ELSE DeleteEach(o.t, rows, i + 1)

DeleteEach(table, rows, i) ==
    IF i > Len(rows) THEN [t |-> table, res |-> "ok"]
    ELSE DeleteNext(rows, i, TableDelete(table, rows[i].key))

\* execute_delete once Table::select_all returned s.
execute_delete_rows(tbls, table_name, where_clause, s) ==
    IF s.res # "ok"
    THEN StmtResult([tbls EXCEPT ![table_name].pager = s.pager], s.res)
    ELSE TableResult(tbls, table_name,
                     DeleteEach([tbls[table_name] EXCEPT !.pager = s.pager],
                                Matching(s.rows, where_clause,
                                         tbls[table_name].columns, 1),
                                1))

\* Executor::execute_delete.
execute_delete(tbls, table_name, where_clause) ==
    IF table_name \notin DOMAIN tbls THEN StmtResult(tbls, "table_not_found")
    ELSE execute_delete_rows(tbls, table_name, where_clause,
                             select_all(tbls[table_name]))

\* Executor::execute_update, the loop over ids_to_update for one assignment
\* `column = value`: the column is zeroed and the value copied in, and the
\* leaf is flushed whatever defer_flush says.  f is what find_leaf returned
\* for row i.
RECURSIVE UpdateEach(_, _, _, _, _)
UpdateEachAt(table, rows, column, value, i, f) ==
    LET t1 == [table EXCEPT !.pager = f.pager]
        page == f.pager.pages[f.page_num]
        lf == leaf_node_find(page, rows[i].key, table.cell_size)
        c == ColumnIndex(table.columns, column)
        dest == leaf_node_cell(lf.slot, table.cell_size) + 4 + table.columns[c].offset
        bytes == Take(ValueBytes(value), table.columns[c].size)
        written == IF c = 0 THEN page
                   ELSE WriteBytes(page, dest,
                            bytes \o Zeros(table.columns[c].size - Len(bytes)))
    IN  IF f.res # "ok" THEN [t |-> t1, res |-> f.res]
        ELSE IF ~lf.exists THEN UpdateEach(t1, rows, column, value, i + 1)
        ELSE UpdateEach([t1 EXCEPT !.pager =
                            flush(SetPage(f.pager, f.page_num, written), f.page_num)],
                        rows, column, value, i + 1)

UpdateEach(table, rows, column, value, i) ==
    IF i > Len(rows) THEN [t |-> table, res |-> "ok"]
    ELSE UpdateEachAt(table, rows, column, value, i, find_leaf(table, rows[i].key))

\* execute_update once Table::select_all returned s.
execute_update_rows(tbls, table_name, column, value, where_clause, s) ==
    IF s.res # "ok"
    THEN StmtResult([tbls EXCEPT ![table_name].pager = s.pager], s.res)
    ELSE TableResult(tbls, table_name,
                     UpdateEach([tbls[table_name] EXCEPT !.pager = s.pager],
                                Matching(s.rows, where_clause,
                                         tbls[table_name].columns, 1),
                                column, value, 1))

\* Executor::execute_update.
execute_update(tbls, table_name, column, value, where_clause) ==
    IF table_name \notin DOMAIN tbls THEN StmtResult(tbls, "table_not_found")
    ELSE execute_update_rows(tbls, table_name, column, value, where_clause,
                             select_all(tbls[table_name]))

\* Executor::execute_begin.
execute_begin(tbls, in_tx) ==
    IF in_tx THEN [res |-> "already_in_progress", tables |-> tbls, in_transaction |-> in_tx]
    ELSE [res |-> "ok",
          tables |-> [n \in DOMAIN tbls |-> [tbls[n] EXCEPT !.defer_flush = TRUE]],
          in_transaction |-> TRUE]

\* Executor::execute_commit.
execute_commit(tbls, in_tx) ==
    IF ~in_tx THEN [res |-> "no_transaction", tables |-> tbls, in_transaction |-> in_tx]
    ELSE [res |-> "ok",
          tables |-> [n \in DOMAIN tbls |->
                        [tbls[n] EXCEPT !.pager = flush_all(@), !.defer_flush = FALSE]],
          in_transaction |-> FALSE]

\* A rollback that empties the caches before it looks at the flag.
execute_rollback_unguarded(tbls, in_tx) ==
    [res |-> IF in_tx THEN "ok" ELSE "no_transaction",
     tables |-> [n \in DOMAIN tbls |-> [tbls[n] EXCEPT !.pager.pages = << >>]],
     in_transaction |-> FALSE]

\* Executor::execute_rollback: the cache is emptied, num_pages and
\* file_length are read from the file as it is.
execute_rollback(tbls, in_tx) ==
    IF ~in_tx THEN [res |-> "no_transaction", tables |-> tbls, in_transaction |-> in_tx]
    ELSE [res |-> "ok",
          tables |-> [n \in DOMAIN tbls |->
                        LET file_len == Len(tbls[n].pager.file) * PAGE_SIZE
                        IN  [tbls[n] EXCEPT !.pager.pages = << >>,
                                            !.pager.num_pages = file_len \div PAGE_SIZE,
                                            !.pager.file_length = file_len,
                                            !.defer_flush = FALSE]],
          in_transaction |-> FALSE]

\* Executor::execute_create with a database connected: the file of the table
\* is removed and made anew.
execute_create(tbls, table_name, raw_cols) ==
    IF table_name \in DOMAIN tbls THEN StmtResult(tbls, "already_exists")
    ELSE StmtResult((table_name :> TableNew(<< >>, raw_cols)) @@ tbls, "ok")

\* Executor::execute_create_index, the loop that adds the existing rows; it
\* stops at the first Err of Index::insert.  o is what Index::insert returned
\* for row i.
RECURSIVE PopulateIndex(_, _, _, _, _)
PopulateNext(rows, columns, column_name, i, o) ==
    IF o.res # "ok" THEN o
    ELSE PopulateIndex(o.ix, rows, columns, column_name, i + 1)

PopulateIndex(index, rows, columns, column_name, i) ==
    IF i > Len(rows) THEN [res |-> "ok", ix |-> index]
    ELSE PopulateNext(rows, columns, column_name, i,
                      IndexInsert(index,
                                  IF column_name = columns[1].name
                                  THEN DecimalBytes(rows[i].key)
                                  ELSE ColumnText(rows[i].data,
                                           columns[ColumnIndex(columns, column_name)]),
                                  rows[i].key))

\* execute_create_index, last part: o is what the loop over the rows left.
execute_create_index_added(tbls, table_name, index_name, t1, o) ==
    IF o.res # "ok" THEN StmtResult([tbls EXCEPT ![table_name] = t1], o.res)
    ELSE StmtResult([tbls EXCEPT ![table_name] =
                        [t1 EXCEPT !.indexes = (index_name :> o.ix) @@ @]],
                    "ok")

\* execute_create_index once Table::select_all returned s.
execute_create_index_rows(tbls, file, index_name, table_name, column_name, unique, s) ==
    IF s.res # "ok"
    THEN StmtResult([tbls EXCEPT ![table_name].pager = s.pager], s.res)
    ELSE execute_create_index_added(
            tbls, table_name, index_name,
            [tbls[table_name] EXCEPT !.pager = s.pager],
            PopulateIndex(IndexNew(file, index_name, table_name, column_name, unique),
                          s.rows, tbls[table_name].columns, column_name, 1))

\* Executor::execute_create_index; file is the index file found on disk
\* (empty when there is none).
execute_create_index(tbls, file, index_name, table_name, column_name, unique) ==
    IF table_name \notin DOMAIN tbls THEN StmtResult(tbls, "table_not_found")
    ELSE IF ColumnIndex(tbls[table_name].columns, column_name) = 0
    THEN StmtResult(tbls, "column_not_found")
    ELSE IF index_name \in DOMAIN tbls[table_name].indexes
    THEN StmtResult(tbls, "index_exists")
    ELSE execute_create_index_rows(tbls, file, index_name, table_name, column_name,
                                   unique, select_all(tbls[table_name]))

\* ------------------------------------------------ the catalog (executor.rs)
\* metadata.json is a sequence of bytes (ASCII).  AsciiOf gives the code of
\* every character the document is written with.
AsciiOf ==
    [c \in {"\"", "(", ")", ",", ".", ":", "[", "]", "{", "}", "E", "G", "I", "N",
            "R", "T", "X", "a", "b", "c", "d", "e", "f", "i", "l", "m", "n",
            "o", "p", "q", "r", "s", "t", "u", "v", "x", "y"} |->
        CASE c = "\"" -> 34 [] c = "(" -> 40 [] c = ")" -> 41 [] c = "," -> 44
          [] c = "." -> 46
          [] c = ":" -> 58 [] c = "[" -> 91 [] c = "]" -> 93
          [] c = "{" -> 123 [] c = "}" -> 125
          [] c = "E" -> 69 [] c = "G" -> 71 [] c = "I" -> 73 [] c = "N" -> 78
          [] c = "R" -> 82 [] c = "T" -> 84 [] c = "X" -> 88
          [] c = "a" -> 97 [] c = "b" -> 98 [] c = "c" -> 99 [] c = "d" -> 100
          [] c = "e" -> 101 [] c = "f" -> 102 [] c = "i" -> 105
          [] c = "l" -> 108 [] c = "m" -> 109 [] c = "n" -> 110
          [] c = "o" -> 111 [] c = "p" -> 112 [] c = "q" -> 113
          [] c = "r" -> 114 [] c = "s" -> 115 [] c = "t" -> 116
          [] c = "u" -> 117 [] c = "v" -> 118 [] c = "x" -> 120
          [] c = "y" -> 121]

\* The bytes of a string given character by character.
Str(chars) == [i \in 1..Len(chars) |-> AsciiOf[chars[i]]]

\* The names of tables, columns and indexes, and the other words between
\* quotes in a document, character by character.
Spelling ==
    [w \in {"a", "b", "t", "u", "id", "bid", "v", "name", "ix", "iy", "columns",
            "indexes", "type", "column", "unique"} |->
        CASE w = "t" -> << "t" >> [] w = "u" -> << "u" >>
          [] w = "a" -> << "a" >> [] w = "b" -> << "b" >>
          [] w = "bid" -> << "b", "i", "d" >>
          [] w = "id" -> << "i", "d" >> [] w = "v" -> << "v" >>
          [] w = "name" -> << "n", "a", "m", "e" >>
          [] w = "ix" -> << "i", "x" >> [] w = "iy" -> << "i", "y" >>
          [] w = "columns" -> << "c", "o", "l", "u", "m", "n", "s" >>
          [] w = "indexes" -> << "i", "n", "d", "e", "x", "e", "s" >>
          [] w = "type" -> << "t", "y", "p", "e" >>
          [] w = "column" -> << "c", "o", "l", "u", "m", "n" >>
          [] w = "unique" -> << "u", "n", "i", "q", "u", "e" >>]

\* A name as the bytes of a String, and the bytes of a String as a name
\* ("?" for bytes that spell none of the names above).
Spell(w) == Str(Spelling[w])

Unspell(bytes) ==
    IF \E w \in DOMAIN Spelling : Spell(w) = bytes
    THEN CHOOSE w \in DOMAIN Spelling : Spell(w) = bytes
    ELSE "?"

\* The orders a HashMap may iterate in: `names` in every order.
Orders(names) ==
    {ord \in [1..Cardinality(names) -> names] :
        \A i, j \in 1..Cardinality(names) : i # j => ord[i] # ord[j]}

\* The names of the tables and of their indexes.
CatalogNames(tbls) ==
    DOMAIN tbls \cup UNION {DOMAIN tbls[n].indexes : n \in DOMAIN tbls}

\* The keys of a HashMap in the order ord iterates them.
IterKeys(map, ord) == LET Held(w) == w \in DOMAIN map IN SelectSeq(ord, Held)

\* The pieces of a list with ',' pushed before every piece but the first.
RECURSIVE Joined(_, _)
Joined(pieces, i) ==
    IF i > Len(pieces) THEN << >>
    ELSE (IF i > 1 THEN Str(<< "," >>) ELSE << >>) \o pieces[i] \o Joined(pieces, i + 1)

\* save_metadata: the entry of one column.
ColumnJson(col) ==
    Str(<< "{", "\"", "n", "a", "m", "e", "\"", ":", "\"" >>) \o Spell(col.name)
      \o Str(<< "\"", ",", "\"", "t", "y", "p", "e", "\"", ":" >>)
      \o (IF col.data_type = "INTEGER"
          THEN Str(<< "\"", "I", "N", "T", "E", "G", "E", "R", "\"" >>)
          ELSE Str(<< "\"", "T", "E", "X", "T", "(" >>) \o DecimalBytes(col.size)
                 \o Str(<< ")", "\"" >>))
      \o Str(<< "}" >>)

\* save_metadata: the entry of one index.
IndexJson(idx_name, idx) ==
    Str(<< "{", "\"", "n", "a", "m", "e", "\"", ":", "\"" >>) \o Spell(idx_name)
      \o Str(<< "\"", ",", "\"", "c", "o", "l", "u", "m", "n", "\"", ":", "\"" >>)
      \o Spell(idx.column_name)
      \o Str(<< "\"", ",", "\"", "u", "n", "i", "q", "u", "e", "\"", ":" >>)
      \o (IF idx.unique THEN Str(<< "t", "r", "u", "e" >>)
          ELSE Str(<< "f", "a", "l", "s", "e" >>))
      \o Str(<< "}" >>)

\* save_metadata: the entry of one table.
TableJson(name, table, ord) ==
    LET idx_names == IterKeys(table.indexes, ord)
    IN  Str(<< "\"" >>) \o Spell(name)
          \o Str(<< "\"", ":", "{", "\"", "c", "o", "l", "u", "m", "n", "s", "\"", ":", "[" >>)
          \o Joined([i \in 1..Len(table.columns) |-> ColumnJson(table.columns[i])], 1)
          \o Str(<< "]", ",", "\"", "i", "n", "d", "e", "x", "e", "s", "\"", ":", "[" >>)
          \o Joined([i \in 1..Len(idx_names) |->
                        IndexJson(idx_names[i], table.indexes[idx_names[i]])], 1)
          \o Str(<< "]", "}" >>)

\* Executor::save_metadata with a database connected: the document written
\* to metadata.json when the HashMaps iterate in the order ord.
save_metadata(tbls, ord) ==
    LET names == IterKeys(tbls, ord)
    IN  Str(<< "{", "\"", "t", "a", "b", "l", "e", "s", "\"", ":", "{" >>)
          \o Joined([i \in 1..Len(names) |-> TableJson(names[i], tbls[names[i]], ord)], 1)
          \o Str(<< "}", "}" >>)

\* The documents save_metadata may write for these tables.
SavedDocuments(tbls) == {save_metadata(tbls, ord) : ord \in Orders(CatalogNames(tbls))}

\* Executor::execute_create_database: the metadata.json of a new database.
EmptyMetadata == Str(<< "{", "\"", "t", "a", "b", "l", "e", "s", "\"", ":", "{", "}", "}" >>)

\* s[at..].starts_with(needle), positions counted from 0 as in the source.
StartsWith(s, at, needle) ==
    /\ at + Len(needle) <= Len(s)
    /\ \A k \in 1..Len(needle) : s[at + k] = needle[k]

\* s[from..].find(needle), as a position in s; -1 for None.
RECURSIVE Find(_, _, _)
Find(s, from, needle) ==
    IF from + Len(needle) > Len(s) THEN -1
    ELSE IF StartsWith(s, from, needle) THEN from
    ELSE Find(s, from + 1, needle)

\* s[a..b].
Between(s, a, b) == SubSeq(s, a + 1, b)

\* load_metadata: the DataType read at t_section, which starts at ts.
ParseType(tc, ts) ==
    LET size_end == Find(tc, ts + 6, Str(<< ")" >>))
        parsed == ParseU32(Between(tc, ts + 6, size_end))
    IN  IF StartsWith(tc, ts, Str(<< "\"", "I", "N", "T", "E", "G", "E", "R", "\"" >>))
        THEN [data_type |-> "INTEGER", size |-> 0]
        ELSE IF /\ StartsWith(tc, ts, Str(<< "\"", "T", "E", "X", "T", "(" >>))
                /\ size_end # -1
                /\ parsed.ok
        THEN [data_type |-> "TEXT", size |-> parsed.n]
        ELSE [data_type |-> "TEXT", size |-> 255]

\* load_metadata: the loop over the columns.  tc is tables_content and every
\* position is a position in tc; cols_section runs from the "columns" key to
\* the end of tc, so `find` looks at everything behind col_pos.
RECURSIVE ParseColumns(_, _, _)
ParseColumns(tc, col_pos, columns) ==
    LET col_start == Find(tc, col_pos,
                          Str(<< "{", "\"", "n", "a", "m", "e", "\"", ":", "\"" >>))
        cn_start == col_start + 9
        cn_end == Find(tc, cn_start, Str(<< "\"" >>))
        t_start == Find(tc, cn_end, Str(<< "\"", "t", "y", "p", "e", "\"", ":" >>))
        pushed == IF cn_end = -1 \/ t_start = -1 THEN columns
                  ELSE Append(columns,
                              [name |-> Unspell(Between(tc, cn_start, cn_end))]
                                 @@ ParseType(tc, t_start + 7))
    IN  IF col_start = -1 THEN columns
        ELSE IF StartsWith(tc, cn_start + 1, Str(<< "]" >>)) THEN pushed
        ELSE ParseColumns(tc, cn_start + 1, pushed)

\* The file a path names: empty when there is none.
FileAt(files, path) == IF path \in DOMAIN files THEN files[path] ELSE << >>

\* load_metadata: the loop over the tables.  files are the table files in
\* the directory of the database.
RECURSIVE LoadTables(_, _, _, _)
LoadTables(tc, pos, tbls, files) ==
    LET name_start == Find(tc, pos, Str(<< "\"" >>))
        actual_start == name_start + 1
        name_end == Find(tc, actual_start, Str(<< "\"" >>))
        table_name == Between(tc, actual_start, name_end)
        cols_start == Find(tc, actual_start,
                           Str(<< "\"", "c", "o", "l", "u", "m", "n", "s", "\"", ":", "[" >>))
        columns == IF cols_start = -1 THEN << >>
                   ELSE ParseColumns(tc, cols_start + 11, << >>)
        opened == IF columns = << >> THEN tbls
                  ELSE (Unspell(table_name)
                          :> TableNew(FileAt(files, Unspell(table_name)), columns)) @@ tbls
        next == Find(tc, name_end + 1, Str(<< "}" >>))
    IN  IF name_start = -1 \/ name_end = -1 THEN tbls
        ELSE IF table_name = Str(<< "}" >>) \/ table_name = << >> THEN tbls
        ELSE LoadTables(tc, IF next = -1 THEN name_end + 1 ELSE next + 1, opened, files)

\* Executor::load_metadata on the document content: the tables it opens.
load_metadata(content, files) ==
    LET tables_start == Find(content, 0,
                             Str(<< "\"", "t", "a", "b", "l", "e", "s", "\"", ":", "{" >>))
    IN  IF tables_start = -1 THEN << >>
        ELSE LoadTables(SubSeq(content, tables_start + 11, Len(content)), 0, << >>, files)

\* The directory of the connected database and the index files beside it,
\* as far as no open table or index holds them: metadata is metadata.json,
\* files the table files by table name, idx the index files by table and
\* index name.
Directory(metadata, files, idx) == [metadata |-> metadata, files |-> files, idx |-> idx]

\* A map without one key.
Without(map, key) == [k \in DOMAIN map \ {key} |-> map[k]]

\* The index files of the open tables, by table and index name.
OpenIndexFiles(tbls) ==
    LET paths == UNION {{<< n, i >> : i \in DOMAIN tbls[n].indexes} : n \in DOMAIN tbls}
    IN  [path \in paths |-> tbls[path[1]].indexes[path[2]].pager.file]

\* Executor::execute_connect to the database of dir: the tables are closed
\* (no Drop flushes their caches) and those load_metadata finds are opened.
execute_connect(tbls, dir) ==
    LET files == [n \in DOMAIN tbls |-> tbls[n].pager.file] @@ dir.files
        loaded == load_metadata(dir.metadata, files)
    IN  [res |-> "ok",
         oob |-> FALSE,
         rows |-> << >>,
         tables |-> loaded,
         dir |-> Directory(dir.metadata,
                           [n \in DOMAIN files \ DOMAIN loaded |-> files[n]],
                           OpenIndexFiles(tbls) @@ dir.idx)]

\* What Executor::execute_create, having returned o, leaves in the
\* directory: the file the table had there is removed and metadata.json is
\* written anew with the document doc.
execute_create_saved(o, table_name, dir, doc) ==
    IF o.res = "ok"
    THEN Directory(doc, Without(dir.files, table_name), dir.idx)
    ELSE dir

\* Executor::execute_drop: the table leaves the map; remove_file is given
\* the bare name "<table>.db", which is not the file in the directory of the
\* database, and the files of its indexes stay as well.
execute_drop(tbls, table_name, dir) ==
    IF table_name \in DOMAIN tbls
    THEN [res |-> "ok",
          oob |-> FALSE,
          rows |-> << >>,
          tables |-> Without(tbls, table_name),
          dir |-> Directory(dir.metadata,
                            (table_name :> tbls[table_name].pager.file) @@ dir.files,
                            OpenIndexFiles((table_name :> tbls[table_name])) @@ dir.idx)]
    ELSE [res |-> "not_found",
          oob |-> FALSE,
          rows |-> << >>,
          tables |-> tbls,
          dir |-> dir]

\* Executor::execute_create_index on the index file the directory holds.
\* Index::new makes the file before a row is read, so a statement that fails
\* later leaves the file behind, with what was written to it.
execute_create_index_in(tbls, index_name, table_name, column_name, unique, dir) ==
    LET path == << table_name, index_name >>
        o == execute_create_index(tbls, FileAt(dir.idx, path),
                                  index_name, table_name, column_name, unique)
        made == IndexNew(FileAt(dir.idx, path), index_name, table_name, column_name, unique)
        s == select_all(tbls[table_name])
        left == IF s.res # "ok" THEN made
                ELSE PopulateIndex(made, s.rows, tbls[table_name].columns, column_name, 1).ix
    IN  [res |-> o.res,
         oob |-> o.oob,
         rows |-> << >>,
         tables |-> o.tables,
         dir |-> IF o.res \in {"table_not_found", "column_not_found", "index_exists"}
                 THEN dir
                 ELSE IF o.res = "ok"
                 THEN Directory(dir.metadata, dir.files, Without(dir.idx, path))
                 ELSE Directory(dir.metadata, dir.files,
                                (path :> left.pager.file) @@ dir.idx)]

\* Executor::execute_drop_index: the first table, in the order ord of the
\* HashMap, that has an index of this name loses it, and the file of the
\* index is removed.
execute_drop_index(tbls, index_name, ord, dir) ==
    LET having == SelectSeq(IterKeys(tbls, ord),
                            LAMBDA n : index_name \in DOMAIN tbls[n].indexes)
    IN  IF having = << >>
        THEN [res |-> "not_found",
              oob |-> FALSE,
              rows |-> << >>,
              tables |-> tbls,
              dir |-> dir]
        ELSE [res |-> "ok",
              oob |-> FALSE,
              rows |-> << >>,
              tables |-> [tbls EXCEPT ![having[1]].indexes = Without(@, index_name)],
              dir |-> Directory(dir.metadata, dir.files,
                                Without(dir.idx, << having[1], index_name >>))]

\* ------------------------------------------------ SELECT with a JOIN
\* get_column_value: the string a row shows for a column.
get_column_value(col_name, id, row_data, col_info, pk_col_name) ==
    IF col_name = pk_col_name THEN DecimalBytes(id)
    ELSE IF ColumnIndex(col_info, col_name) # 0
    THEN ColumnText(row_data, col_info[ColumnIndex(col_info, col_name)])
    ELSE << >>

\* execute_select_with_join: all_col_info, the columns of the left table and
\* then those of the right table.
AllColInfo(left_name, left_cols, right_name, right_cols) ==
    [i \in 1..Len(left_cols) |->
        [size |-> left_cols[i].size,
         name |-> left_cols[i].name,
         offset |-> left_cols[i].offset,
         table |-> left_name,
         is_left |-> TRUE]]
      \o [i \in 1..Len(right_cols) |->
            [size |-> right_cols[i].size,
             name |-> right_cols[i].name,
             offset |-> right_cols[i].offset,
             table |-> right_name,
             is_left |-> FALSE]]

\* "<table>.<column>" as bytes.
Header(col) == Spell(col.table) \o Str(<< "." >>) \o Spell(col.name)

\* execute_select_with_join: the string pushed for the selected column
\* col_name (bytes) of a joined pair; str::contains is a search for the
\* bytes of the primary key's name.
JoinCell(col_name, all_col_info, l, left_pk, r, right_pk) ==
    LET found == {i \in 1..Len(all_col_info) :
                     \/ col_name = Header(all_col_info[i])
                     \/ col_name = Spell(all_col_info[i].name)}
        col == all_col_info[CHOOSE i \in found : \A k \in found : i <= k]
        row == IF col.is_left THEN l ELSE r
        pk == IF col.is_left THEN left_pk ELSE right_pk
    IN  IF found = {} THEN << >>
        ELSE IF Find(col_name, 0, Spell(pk)) # -1 THEN DecimalBytes(row.key)
        ELSE TrimNul(Slice(row.data, col.offset, col.size))

\* execute_select_with_join once both Table::select_all returned (ls, rs):
\* the nested loops over the rows, all columns selected.
execute_select_with_join_rows(tbls, left_name, right_name, left_col, right_col, ls, rs) ==
    LET lc == tbls[left_name].columns
        rc == tbls[right_name].columns
        all_col_info == AllColInfo(left_name, lc, right_name, rc)
        pairs == [k \in 1..(Len(ls.rows) * Len(rs.rows)) |->
                    << ls.rows[((k - 1) \div Len(rs.rows)) + 1],
                       rs.rows[((k - 1) % Len(rs.rows)) + 1] >>]
        joined == SelectSeq(pairs,
                     LAMBDA p : get_column_value(left_col, p[1].key, p[1].data, lc, lc[1].name)
                              = get_column_value(right_col, p[2].key, p[2].data, rc, rc[1].name))
        after == [[tbls EXCEPT ![left_name].pager = ls.pager]
                     EXCEPT ![right_name].pager = rs.pager]
    IN  IF ls.res # "ok"
        THEN StmtResult([tbls EXCEPT ![left_name].pager = ls.pager], ls.res)
        ELSE IF rs.res # "ok" THEN StmtResult(after, rs.res)
        ELSE [res |-> "ok",
              oob |-> FALSE,
              rows |-> [k \in 1..Len(joined) |->
                          [c \in 1..Len(all_col_info) |->
                              JoinCell(Header(all_col_info[c]), all_col_info,
                                       joined[k][1], lc[1].name,
                                       joined[k][2], rc[1].name)]],
              tables |-> after]

\* Executor::execute_select_with_join for
\* SELECT * FROM left_name INNER JOIN right_name ON left_col = right_col.
execute_select_with_join(tbls, left_name, right_name, left_col, right_col) ==
    IF left_name \notin DOMAIN tbls \/ right_name \notin DOMAIN tbls
    THEN StmtResult(tbls, "table_not_found")
    ELSE execute_select_with_join_rows(
            tbls, left_name, right_name, left_col, right_col,
            select_all(tbls[left_name]),
            select_all([tbls EXCEPT ![left_name].pager =
                           select_all(tbls[left_name]).pager][right_name]))

\* ------------------------------------------- the executor on table files
\* t(id INTEGER, v INTEGER) and u(id INTEGER, name TEXT(4)).
IntCols ==
    << [data_type |-> "INTEGER", size |-> 0, name |-> "id"],
       [data_type |-> "INTEGER", size |-> 0, name |-> "v"] >>

SchemaOf(table_name) == IF table_name = "t" THEN IntCols ELSE UsersCols

TableNames == {"t", "u"}

StmtKeys == 1..3

\* The values for the second column: an integer of five digits, a string of
\* two bytes ("ab").
StmtValues == { IntegerValue(12345), TextValue(<< 97, 98 >>) }

WhereChoices == { NoWhere, WhereEquals("id", IntegerValue(1)) }

\* The state after CREATE DATABASE and CONNECT: no table yet.
InitExec ==
    /\ tables = << >>
    /\ in_transaction = FALSE
    /\ status = "running"
    /\ last = NoCall
    /\ hist = NoHist
    /\ disk = Directory(EmptyMetadata, << >>, << >>)

Files(tbls) == [n \in DOMAIN tbls |-> tbls[n].pager.file]

\* What SELECT * FROM n returns, for every table n.
SelectAll(tbls) == [n \in DOMAIN tbls |-> execute_select(tbls, n, NoWhere).rows]

\* hist.plain after a statement with the result o.
PlainAfter(op, o) ==
    IF \/ ~in_transaction
       \/ hist.plain = "none"
       \/ op \notin {"insert", "delete"}
       \/ \E n \in DOMAIN tables :
             o.tables[n].pager.num_pages # tables[n].pager.num_pages
    THEN "none"
    ELSE IF o.res = "ok" THEN "changed" ELSE hist.plain

\* What every statement leaves behind: the tables, how the process goes on,
\* the statement and its result.
Returned(op, table_name, values, o) ==
    /\ tables' = o.tables
    /\ status' \in StatusAfter(o)
    /\ last' = [res |-> o.res, op |-> op, table |-> table_name, values |-> values]
    /\ hist' = [hist EXCEPT !.stmts = @ + 1,
                            !.begin = IF in_transaction THEN @ ELSE << >>,
                            !.rows = IF in_transaction THEN @ ELSE << >>,
                            !.plain = PlainAfter(op, o)]
    /\ disk' \in IF op = "create"
                 THEN {execute_create_saved(o, table_name, disk, doc) :
                          doc \in SavedDocuments(o.tables)}
                 ELSE {disk}
    /\ UNCHANGED in_transaction

CanExecute == status = "running" /\ hist.stmts < MaxStmts

ExecCreate(table_name) ==
    /\ CanExecute
    /\ Returned("create", table_name, << >>,
                execute_create(tables, table_name, SchemaOf(table_name)))

ExecInsert(table_name, values) ==
    /\ CanExecute
    /\ Returned("insert", table_name, values, execute_insert(tables, table_name, values))

ExecSelect(table_name) ==
    /\ CanExecute
    /\ Returned("select", table_name, << >>, execute_select(tables, table_name, NoWhere))

ExecUpdate(table_name, value, where_clause) ==
    /\ CanExecute
    /\ table_name \in DOMAIN tables
    /\ Returned("update", table_name, << value >>,
                execute_update(tables, table_name, tables[table_name].columns[2].name,
                               value, where_clause))

ExecDelete(table_name, where_clause) ==
    /\ CanExecute
    /\ Returned("delete", table_name, << >>,
                execute_delete(tables, table_name, where_clause))

\* BEGIN, COMMIT and ROLLBACK.
Transaction(op, o) ==
    /\ tables' = o.tables
    /\ in_transaction' = o.in_transaction
    /\ last' = [res |-> o.res, op |-> op, table |-> "", values |-> << >>]
    /\ UNCHANGED << status, disk >>

ExecBegin ==
    /\ CanExecute
    /\ Transaction("begin", execute_begin(tables, in_transaction))
    /\ hist' = [hist EXCEPT !.stmts = @ + 1,
                            !.begin = IF in_transaction THEN @ ELSE Files(tables),
                            !.rows = IF in_transaction THEN @ ELSE SelectAll(tables),
                            !.plain = IF in_transaction THEN "none" ELSE "empty"]

ExecCommit ==
    /\ CanExecute
    /\ Transaction("commit", execute_commit(tables, in_transaction))
    /\ hist' = [hist EXCEPT !.stmts = @ + 1, !.plain = "none"]

ExecRollback ==
    /\ CanExecute
    /\ Transaction("rollback", execute_rollback(tables, in_transaction))
    /\ hist' = [hist EXCEPT !.stmts = @ + 1]

NextExec ==
    \/ \E table_name \in TableNames : ExecCreate(table_name)
    \/ \E table_name \in TableNames, key \in StmtKeys, value \in StmtValues :
          ExecInsert(table_name, << IntegerValue(key), value >>)
    \/ \E table_name \in TableNames : ExecSelect(table_name)
    \/ \E table_name \in TableNames, where_clause \in WhereChoices :
          ExecUpdate(table_name, TextValue(<< 55 >>), where_clause)
    \/ \E table_name \in TableNames, where_clause \in WhereChoices :
          ExecDelete(table_name, where_clause)
    \/ ExecBegin
    \/ ExecCommit
    \/ ExecRollback

SpecExec == InitExec /\ [][NextExec]_vars

\* ------------------------------------------- inserts under a UNIQUE index
\* The strings for the indexed column: "a", "b", "c".
IndexedValues == { TextValue(<< 97 >>), TextValue(<< 98 >>), TextValue(<< 99 >>) }

\* The state after CREATE TABLE u (id INTEGER, name TEXT(4)) and
\* CREATE UNIQUE INDEX ix ON u (name), no index file having been there.
InitIndex ==
    /\ tables = execute_create_index(execute_create(<< >>, "u", UsersCols).tables,
                                     << >>, "ix", "u", "name", TRUE).tables
    /\ in_transaction = FALSE
    /\ status = "running"
    /\ last = NoCall
    /\ hist = NoHist
    /\ disk = Directory(save_metadata(execute_create(<< >>, "u", UsersCols).tables,
                                      << "u" >>),
                        << >>, << >>)

\* What an INSERT INTO u leaves behind.
IndexedReturned(values, o) ==
    /\ tables' = o.tables
    /\ status' \in StatusAfter(o)
    /\ last' = [res |-> o.res, op |-> "insert", table |-> "u", values |-> values]
    /\ hist' = [hist EXCEPT !.stmts = @ + 1,
                            !.ok_values = IF o.res = "ok"
                                          THEN Append(@, ValueBytes(values[2]))
                                          ELSE @]
    /\ UNCHANGED disk

\* INSERT INTO u VALUES (key, value).
IndexedInsert(values) ==
    /\ status = "running"
    /\ hist.stmts < MaxIndexed
    /\ IndexedReturned(values, execute_insert(tables, "u", values))
    /\ UNCHANGED in_transaction

\* INSERTs that execute_insert turns down before it looks at a row: into a
\* table that is not there, without values, with an id that is no number.
RejectedInserts ==
    { [table |-> "x", values |-> << IntegerValue(1), TextValue(<< 97 >>) >>],
      [table |-> "u", values |-> << >>],
      [table |-> "u", values |-> << TextValue(<< 122 >>), TextValue(<< 97 >>) >>] }

RejectedInsert(stmt) ==
    /\ status = "running"
    /\ hist.stmts < MaxIndexed
    /\ Returned("insert", stmt.table, stmt.values,
                execute_insert(tables, stmt.table, stmt.values))

\* INSERT INTO u VALUES (2^32 + key, value).
WideInsert(key, value) ==
    /\ status = "running"
    /\ hist.stmts < MaxIndexed
    /\ IndexedReturned(<< WideInteger(1, key), value >>,
                       execute_insert(tables, "u", << WideInteger(1, key), value >>))
    /\ UNCHANGED in_transaction

NextIndex ==
    \/ \E key \in Keys, value \in IndexedValues :
          IndexedInsert(<< IntegerValue(key), value >>)
    \/ \E key \in 1..2, value \in IndexedValues : WideInsert(key, value)
    \/ \E stmt \in RejectedInserts : RejectedInsert(stmt)

SpecIndex == InitIndex /\ [][NextIndex]_vars

\* ------------------------------- inserts and updates under a UNIQUE index
\* UPDATE u SET name = value WHERE id = key.
IndexedUpdate(key, value) ==
    /\ status = "running"
    /\ hist.stmts < MaxIndexed
    /\ Returned("update", "u", << value >>,
                execute_update(tables, "u", "name", value,
                               WhereEquals("id", IntegerValue(key))))

NextIndexUpdate ==
    \/ \E key \in Keys, value \in IndexedValues :
          IndexedInsert(<< IntegerValue(key), value >>)
    \/ \E key \in Keys, value \in IndexedValues : IndexedUpdate(key, value)

SpecIndexUpdate == InitIndex /\ [][NextIndexUpdate]_vars

\* --------------------------- inserts under an index inside transactions
\* BEGIN.
IndexedBegin ==
    /\ status = "running"
    /\ hist.stmts < MaxIndexed
    /\ Transaction("begin", execute_begin(tables, in_transaction))
    /\ hist' = [hist EXCEPT !.stmts = @ + 1,
                            !.indexes = IF in_transaction THEN @ ELSE tables["u"].indexes]

\* ROLLBACK.
IndexedRollback ==
    /\ status = "running"
    /\ hist.stmts < MaxIndexed
    /\ Transaction("rollback", execute_rollback(tables, in_transaction))
    /\ hist' = [hist EXCEPT !.stmts = @ + 1]

NextIndexTx ==
    \/ \E key \in 1..MaxRowId, value \in IndexedValues :
          IndexedInsert(<< IntegerValue(key), value >>)
    \/ IndexedBegin
    \/ IndexedRollback

SpecIndexTx == InitIndex /\ [][NextIndexTx]_vars

\* ------------------- inserts and deletes in the table and in its index
\* INSERT INTO u VALUES (key, value).
TreesInsert(values) ==
    /\ status = "running"
    /\ hist.stmts < MaxTrees
    /\ IndexedReturned(values, execute_insert(tables, "u", values))
    /\ UNCHANGED in_transaction

\* DELETE FROM u WHERE id = key: Table::delete on the primary tree.
TreesDelete(key) ==
    /\ status = "running"
    /\ hist.stmts < MaxTrees
    /\ Returned("delete", "u", << >>,
                execute_delete(tables, "u", WhereEquals("id", IntegerValue(key))))

\* Index::delete(value, row_id) on the index ix of u.
TreesIndexDelete(value, row_id) ==
    LET o == IndexDelete(tables["u"].indexes["ix"], ValueBytes(value), row_id)
    IN  /\ status = "running"
        /\ hist.stmts < MaxTrees
        /\ tables' = [tables EXCEPT !["u"].indexes["ix"] = o.ix]
        /\ status' = IF o.res = "ok" THEN "running" ELSE o.res
        /\ last' = [res |-> o.res,
                    op |-> "index_delete",
                    table |-> "u",
                    values |-> << IntegerValue(row_id), value >>]
        /\ hist' = [hist EXCEPT !.stmts = @ + 1]
        /\ UNCHANGED << in_transaction, disk >>

NextTrees ==
    \/ \E key \in TreesKeys, value \in IndexedValues :
          TreesInsert(<< IntegerValue(key), value >>)
    \/ \E key \in TreesKeys : TreesDelete(key)
    \/ \E key \in TreesKeys, value \in IndexedValues : TreesIndexDelete(value, key)

SpecTrees == InitIndex /\ [][NextTrees]_vars

\* --------------------------- calls on an index, each one recorded (index.rs)
\* The keys handed to the index: "a", "b", "c" and a key of INDEX_KEY_SIZE + 1
\* bytes.
LongKey == [i \in 1..(INDEX_KEY_SIZE + 1) |-> 100 + i]

IndexKeys == { << 97 >>, << 98 >>, << 99 >>, LongKey }

\* The state after CREATE TABLE u (id INTEGER, name TEXT(4)) and
\* CREATE INDEX ix ON u (name): an index that takes a key more than once.
InitIndexCalls ==
    /\ tables = execute_create_index(execute_create(<< >>, "u", UsersCols).tables,
                                     << >>, "ix", "u", "name", FALSE).tables
    /\ in_transaction = FALSE
    /\ status = "running"
    /\ last = NoCall
    /\ hist = NoHist
    /\ disk = NoDirectory

\* What a call of Index::insert or Index::delete on ix leaves behind.
IndexCalled(op, key_value, row_id, o) ==
    /\ tables' = [tables EXCEPT !["u"].indexes["ix"] = o.ix]
    /\ status' = IF o.res \in {"panic", "hang"} THEN o.res ELSE "running"
    /\ last' = [res |-> o.res,
                op |-> op,
                table |-> "u",
                values |-> << key_value, row_id >>]
    /\ hist' = [hist EXCEPT !.stmts = @ + 1]
    /\ UNCHANGED << in_transaction, disk >>

\* Index::insert(key_value, row_id).
IndexCallInsert(key_value, row_id) ==
    /\ status = "running"
    /\ hist.stmts < MaxIndexCalls
    /\ IndexCalled("Index::insert", key_value, row_id,
                   IndexInsert(tables["u"].indexes["ix"], key_value, row_id))

\* Index::delete(key_value, row_id).
IndexCallDelete(key_value, row_id) ==
    /\ status = "running"
    /\ hist.stmts < MaxIndexCalls
    /\ IndexCalled("Index::delete", key_value, row_id,
                   IndexDelete(tables["u"].indexes["ix"], key_value, row_id))

NextIndexCalls ==
    \/ \E key_value \in IndexKeys, row_id \in 1..MaxRowId :
          IndexCallInsert(key_value, row_id)
    \/ \E key_value \in IndexKeys, row_id \in 1..MaxRowId :
          IndexCallDelete(key_value, row_id)

SpecIndexCalls == InitIndexCalls /\ [][NextIndexCalls]_vars

\* ------------------------------------------- statements on the catalog
IndexNames == {"ix", "iy"}

\* What a statement on the catalog leaves behind.
CatalogReturned(op, table_name, index_name, o) ==
    /\ tables' = o.tables
    /\ disk' = o.dir
    /\ status' \in StatusAfter(o)
    /\ last' = [res |-> o.res,
                op |-> op,
                table |-> table_name,
                values |-> << index_name >>]
    /\ hist' = [hist EXCEPT !.stmts = @ + 1]
    /\ UNCHANGED in_transaction

\* CREATE TABLE table_name (...).
CatalogCreate(table_name) ==
    /\ status = "running"
    /\ hist.stmts < MaxCatalog
    /\ Returned("create", table_name, << >>,
                execute_create(tables, table_name, SchemaOf(table_name)))

\* INSERT INTO u VALUES (key, value).
CatalogInsert(values) ==
    /\ status = "running"
    /\ hist.stmts < MaxCatalog
    /\ Returned("insert", "u", values, execute_insert(tables, "u", values))

\* DROP TABLE table_name.
CatalogDrop(table_name) ==
    /\ status = "running"
    /\ hist.stmts < MaxCatalog
    /\ CatalogReturned("drop", table_name, "", execute_drop(tables, table_name, disk))

\* CREATE [UNIQUE] INDEX index_name ON table_name (column_name).
CatalogCreateIndex(index_name, table_name, column_name, unique) ==
    /\ status = "running"
    /\ hist.stmts < MaxCatalog
    /\ CatalogReturned("create_index", table_name, index_name,
                       execute_create_index_in(tables, index_name, table_name,
                                               column_name, unique, disk))

\* DROP INDEX index_name.
CatalogDropIndex(index_name) ==
    /\ status = "running"
    /\ hist.stmts < MaxCatalog
    /\ \E ord \in Orders(DOMAIN tables) :
          CatalogReturned("drop_index", "", index_name,
                          execute_drop_index(tables, index_name, ord, disk))

\* CONNECT to the database that is connected.
CatalogConnect ==
    /\ status = "running"
    /\ hist.stmts < MaxCatalog
    /\ CatalogReturned("connect", "", "", execute_connect(tables, disk))

NextCatalog ==
    \/ \E table_name \in TableNames : CatalogCreate(table_name)
    \/ \E table_name \in TableNames : CatalogDrop(table_name)
    \/ \E index_name \in IndexNames, table_name \in TableNames,
          column_name \in {"id", "name"}, unique \in BOOLEAN :
          CatalogCreateIndex(index_name, table_name, column_name, unique)
    \/ \E index_name \in IndexNames : CatalogDropIndex(index_name)
    \/ CatalogConnect
    \/ \E key \in 1..2, value \in IndexedValues \ {TextValue(<< 99 >>)} :
          CatalogInsert(<< IntegerValue(key), value >>)

SpecCatalog == InitExec /\ [][NextCatalog]_vars

\* ------------------------------------------------- a JOIN of two tables
\* a(id INTEGER, bid INTEGER) and b(id INTEGER, v TEXT(4)).
JoinCols(table_name) ==
    IF table_name = "a"
    THEN << [data_type |-> "INTEGER", size |-> 0, name |-> "id"],
            [data_type |-> "INTEGER", size |-> 0, name |-> "bid"] >>
    ELSE << [data_type |-> "INTEGER", size |-> 0, name |-> "id"],
            [data_type |-> "TEXT", size |-> 4, name |-> "v"] >>

\* The state after CREATE TABLE a and CREATE TABLE b.
InitJoin ==
    /\ tables = execute_create(execute_create(<< >>, "a", JoinCols("a")).tables,
                               "b", JoinCols("b")).tables
    /\ in_transaction = FALSE
    /\ status = "running"
    /\ last = NoCall
    /\ hist = NoHist
    /\ disk \in {Directory(doc, << >>, << >>) : doc \in SavedDocuments(tables)}

\* INSERT INTO table_name VALUES (key, value).
JoinInsert(table_name, values) ==
    /\ status = "running"
    /\ hist.stmts < MaxJoin
    /\ Returned("insert", table_name, values, execute_insert(tables, table_name, values))

\* SELECT * FROM a INNER JOIN b ON bid = id.
JoinSelect ==
    /\ status = "running"
    /\ hist.stmts < MaxJoin
    /\ Returned("join", "a", << >>, execute_select_with_join(tables, "a", "b", "bid", "id"))

NextJoin ==
    \/ \E key \in 1..2, bid \in {1, 10, 20} :
          JoinInsert("a", << IntegerValue(key), IntegerValue(bid) >>)
    \/ \E key \in {1, 10, 20}, v \in IndexedValues :
          JoinInsert("b", << IntegerValue(key), v >>)
    \/ JoinSelect

SpecJoin == InitJoin /\ [][NextJoin]_vars

\* ------------------------------------------------- claims on the statements
\* Every populated cache slot of the table holds the bytes of the same block
\* of its file.
CacheOnDisk(t) ==
    \A n \in DOMAIN t.pager.pages :
        /\ n < Len(t.pager.file)
        /\ t.pager.file[n + 1] = t.pager.pages[n]

\* C3: after a ROLLBACK that ends a transaction, the file of every table that
\* was open at BEGIN is byte for byte the file it was at BEGIN.
C3_RollbackRestoresFiles ==
    (status = "running" /\ last.op = "rollback" /\ last.res = "ok") =>
        \A n \in DOMAIN hist.begin :
            /\ n \in DOMAIN tables
            /\ tables[n].pager.file = hist.begin[n]

\* C5: after a successful INSERT of (v0, v1), SELECT * WHERE pk = v0 returns
\* the row: v0 for the first column, the inserted string for a TEXT(m) column
\* given a string of at most m bytes, and text that reads as the inserted
\* number for an INTEGER column given an integer.
C5_RoundTrip ==
    (status = "running" /\ last.op = "insert" /\ last.res = "ok") =>
        LET t == tables[last.table]
            sel == execute_select(tables, last.table,
                                  WhereEquals(t.columns[1].name, last.values[1]))
        IN  /\ sel.res = "ok"
            /\ Len(sel.rows) >= 1
            /\ \A i \in 1..Len(sel.rows) :
                  /\ sel.rows[i][1] = ValueBytes(last.values[1])
                  /\ \A c \in 2..Len(t.columns) :
                        LET v == last.values[c]
                        IN  /\ (t.columns[c].data_type = "TEXT" /\ v.kind = "Text"
                                  /\ Len(v.s) <= t.columns[c].size)
                               => sel.rows[i][c] = v.s
                            /\ (t.columns[c].data_type = "INTEGER" /\ v.kind = "Integer")
                               => ParseI64(sel.rows[i][c]) = [n |-> v.n, ok |-> TRUE]

\* C9: outside a transaction, after every statement, every cached page of
\* every open table is byte for byte the same page of the table's file.
C9_CacheOnDisk ==
    (status = "running" /\ ~in_transaction) =>
        \A n \in DOMAIN tables : CacheOnDisk(tables[n])

C9_Witness ==
    /\ status = "running"
    /\ ~in_transaction
    /\ last.op = "delete" /\ last.res = "ok"
    /\ \E n \in DOMAIN tables :
          /\ tables[n].pager.num_pages >= 3
          /\ Len(select_all(tables[n]).rows) = 2

\* C10: right after a COMMIT that ends a transaction, the transaction flag
\* and defer_flush of every table are clear and every cached page in
\* [0, num_pages) of every table is in the table's file.
C10_CommitFlushes ==
    (last.op = "commit" /\ last.res = "ok") =>
        /\ ~in_transaction
        /\ \A n \in DOMAIN tables :
              /\ ~tables[n].defer_flush
              /\ \A p \in 0..(tables[n].pager.num_pages - 1) :
                    p \in DOMAIN tables[n].pager.pages =>
                        /\ p < Len(tables[n].pager.file)
                        /\ tables[n].pager.file[p + 1] = tables[n].pager.pages[p]

C10_Witness ==
    /\ last.op = "commit" /\ last.res = "ok"
    /\ \E n \in DOMAIN hist.begin :
          /\ tables[n].pager.num_pages = 1
          /\ tables[n].pager.file # hist.begin[n]
          /\ Len(select_all(tables[n]).rows) = 2

\* ------------------------------------------------- claims on the UNIQUE index
\* C4: with a UNIQUE index on the column, no two INSERTs that succeeded gave
\* the column the same value.
C4_UniqueValues == NoRepeats(hist.ok_values)

\* C11: BEGIN inside a transaction fails, COMMIT and ROLLBACK outside one
\* fail, and a failing BEGIN, COMMIT or ROLLBACK leaves the transaction flag
\* and every table (defer_flush, page cache, file) as they were.
C11_FailedTransactionStatement ==
    [][(/\ hist'.stmts = hist.stmts + 1
        /\ last'.op \in {"begin", "commit", "rollback"}) =>
           /\ (last'.op = "begin" /\ in_transaction) => last'.res # "ok"
           /\ (last'.op # "begin" /\ ~in_transaction) => last'.res # "ok"
           /\ last'.res # "ok" =>
                 /\ tables' = tables
                 /\ in_transaction' = in_transaction]_vars

C11_Witness ==
    /\ last.op = "begin" /\ last.res = "already_in_progress"
    /\ in_transaction
    /\ \E n \in DOMAIN tables : tables[n].defer_flush /\ ~CacheOnDisk(tables[n])

\* C12: when every statement between BEGIN and ROLLBACK was an INSERT or a
\* DELETE that split no leaf, SELECT * after the ROLLBACK returns for every
\* table the rows it returned at BEGIN, and the table file is as long as it
\* was at BEGIN.
C12_RollbackRestoresRows ==
    (/\ status = "running"
     /\ last.op = "rollback" /\ last.res = "ok"
     /\ hist.plain # "none") =>
        \A n \in DOMAIN hist.begin :
            /\ n \in DOMAIN tables
            /\ execute_select(tables, n, NoWhere).res = "ok"
            /\ execute_select(tables, n, NoWhere).rows = hist.rows[n]
            /\ Len(tables[n].pager.file) = Len(hist.begin[n])

C12_Witness ==
    /\ status = "running"
    /\ last.op = "rollback" /\ last.res = "ok"
    /\ hist.plain = "changed"
    /\ \E n \in DOMAIN hist.begin : Len(hist.rows[n]) >= 1

\* C13: an INSERT that splits a leaf of a table with defer_flush set, inside
\* a transaction, leaves the file of the table as it was.
C13_SplitDefersFlush ==
    [][(/\ hist'.stmts = hist.stmts + 1
        /\ last'.op = "insert" /\ last'.res = "ok"
        /\ in_transaction
        /\ last'.table \in DOMAIN tables
        /\ tables[last'.table].defer_flush
        /\ tables'[last'.table].pager.num_pages > tables[last'.table].pager.num_pages) =>
           tables'[last'.table].pager.file = tables[last'.table].pager.file]_vars

\* Two pagers hold the same file and every page reads the same from both.
SamePages(pa, pb) ==
    /\ pa.file = pb.file
    /\ pa.file_length = pb.file_length
    /\ pa.num_pages = pb.num_pages
    /\ \A p \in 0..(pa.num_pages - 1) :
          get_page(pa, p).pages[p] = get_page(pb, p).pages[p]

\* Two tables hold the same pages, file and indexes.
SameTable(ta, tb) ==
    /\ SamePages(ta.pager, tb.pager)
    /\ ta.columns = tb.columns
    /\ ta.defer_flush = tb.defer_flush
    /\ DOMAIN ta.indexes = DOMAIN tb.indexes
    /\ \A i \in DOMAIN ta.indexes :
          /\ SamePages(ta.indexes[i].pager, tb.indexes[i].pager)
          /\ ta.indexes[i].root_page_num = tb.indexes[i].root_page_num
          /\ ta.indexes[i].unique = tb.indexes[i].unique
          /\ ta.indexes[i].column_name = tb.indexes[i].column_name

\* C14: an INSERT that returns an error leaves every table as it was: the
\* pages, the file and every index of the table.
C14_FailedInsertWritesNothing ==
    [][(/\ hist'.stmts = hist.stmts + 1
        /\ last'.op = "insert"
        /\ last'.res # "ok"
        /\ status' = "running") =>
           /\ DOMAIN tables' = DOMAIN tables
           /\ \A n \in DOMAIN tables : SameTable(tables[n], tables'[n])]_vars

C14_Witness ==
    /\ status = "running"
    /\ last.op = "insert" /\ last.res = "unique"
    /\ \E n \in DOMAIN tables : \E i \in DOMAIN tables[n].indexes :
          tables[n].indexes[i].pager.num_pages >= 3

\* The strings SELECT * FROM u returns for column name, in scan order.
NamesOf(tbls) ==
    LET rows == execute_select(tbls, "u", NoWhere).rows
    IN  [i \in 1..Len(rows) |-> rows[i][2]]

\* C15: with a UNIQUE index on u(name), an UPDATE of a table whose rows have
\* distinct names leaves the names distinct.
C15_UpdateKeepsUnique ==
    [][(/\ hist'.stmts = hist.stmts + 1
        /\ last'.op = "update"
        /\ status' = "running"
        /\ NoRepeats(NamesOf(tables))) => NoRepeats(NamesOf(tables'))]_vars

\* C16: in the primary tree the root is page 0, and page 0 is the only page
\* with is_root set.
C16_RootIsPageZero ==
    status = "running" =>
        /\ T.root_page_num = 0
        /\ \A p \in 0..(T.pager.num_pages - 1) :
              is_node_root(PageOf(T, p)) <=> p = 0

C16_Witness ==
    /\ status = "running"
    /\ RootIsInternal(T)
    /\ T.pager.num_pages >= 4
    /\ hist.del_ok >= 1

\* C17: in every index the root of the tree is page 0: root_page_num is 0
\* and page 0 carries the root flag.
C17_IndexRootIsPageZero ==
    status = "running" =>
        \A n \in DOMAIN tables : \A i \in DOMAIN tables[n].indexes :
            /\ tables[n].indexes[i].root_page_num = 0
            /\ is_node_root(get_page(tables[n].indexes[i].pager, 0).pages[0])

\* The leaves of two trees: the pages of a pager that are leaf nodes.
LeafPages(pager) ==
    {p \in 0..(pager.num_pages - 1) :
        get_node_type(get_page(pager, p).pages[p]) = NodeLeaf}

\* C18: after any sequence of inserts and deletes, no leaf of the primary
\* tree holds more than (PAGE_SIZE - LEAF_NODE_HEADER_SIZE) / cell_size
\* cells, and no leaf of an index tree more than
\* (PAGE_SIZE - LEAF_NODE_HEADER_SIZE) / INDEX_CELL_SIZE.
C18_LeafCellsBounded ==
    status = "running" =>
        \A n \in DOMAIN tables :
            /\ \A p \in LeafPages(tables[n].pager) :
                  leaf_node_num_cells(get_page(tables[n].pager, p).pages[p]) * tables[n].cell_size
                      <= PAGE_SIZE - LEAF_NODE_HEADER_SIZE
            /\ \A i \in DOMAIN tables[n].indexes :
                  \A p \in LeafPages(tables[n].indexes[i].pager) :
                      leaf_node_num_cells(get_page(tables[n].indexes[i].pager, p).pages[p])
                              * INDEX_CELL_SIZE
                          <= PAGE_SIZE - LEAF_NODE_HEADER_SIZE

\* A delete came after both trees had split, and a leaf of each is full.
C18_Witness ==
    /\ status = "running"
    /\ last.op \in {"delete", "index_delete"}
    /\ last.res = "ok"
    /\ tables["u"].pager.num_pages >= 3
    /\ tables["u"].indexes["ix"].pager.num_pages >= 3
    /\ \E p \in LeafPages(tables["u"].pager) :
          leaf_node_num_cells(get_page(tables["u"].pager, p).pages[p])
              = leaf_node_max_cells(tables["u"].cell_size)
    /\ \E p \in LeafPages(tables["u"].indexes["ix"].pager) :
          leaf_node_num_cells(get_page(tables["u"].indexes["ix"].pager, p).pages[p])
              = leaf_node_max_cells(INDEX_CELL_SIZE)

\* C19: after every successful CREATE TABLE, DROP TABLE, CREATE INDEX and
\* DROP INDEX, metadata.json is a document save_metadata writes for the
\* tables that are open then: it lists exactly these tables, each with its
\* columns and its indexes.
C19_MetadataFollowsSchema ==
    [][(/\ hist'.stmts = hist.stmts + 1
        /\ last'.op \in {"create", "drop", "create_index", "drop_index"}
        /\ last'.res = "ok"
        /\ status' = "running") =>
           disk'.metadata \in SavedDocuments(tables')]_vars

\* C20: when metadata.json is a document save_metadata writes for the open
\* tables, CONNECT opens exactly these tables, each with the same columns
\* (name, type, size, in order) and the same indexes (name, column, unique
\* flag).
C20_ConnectReproduces ==
    [][(/\ hist'.stmts = hist.stmts + 1
        /\ last'.op = "connect"
        /\ disk.metadata \in SavedDocuments(tables)) =>
           /\ last'.res = "ok"
           /\ Catalog(tables') = Catalog(tables)]_vars

\* The entries (key, row_id) in the leaves of an index, and how many cells
\* the leaves hold.
IndexEntries(ix) ==
    UNION {{read_cell(get_page(ix.pager, p).pages[p], i) :
               i \in 0..(leaf_node_num_cells(get_page(ix.pager, p).pages[p]) - 1)} :
           p \in LeafPages(ix.pager)}

RECURSIVE IndexCellCount(_, _)
IndexCellCount(ix, p) ==
    IF p >= ix.pager.num_pages THEN 0
    ELSE (IF p \in LeafPages(ix.pager)
          THEN leaf_node_num_cells(get_page(ix.pager, p).pages[p]) ELSE 0)
            + IndexCellCount(ix, p + 1)

\* One entry (value of the column, primary key) for every row of the table.
RowEntries(t, column_name) ==
    LET rows == select_all(t).rows
    IN  {[key |-> IF column_name = t.columns[1].name
                  THEN DecimalBytes(rows[i].key)
                  ELSE ColumnText(rows[i].data,
                                  t.columns[ColumnIndex(t.columns, column_name)]),
          row_id |-> rows[i].key] : i \in 1..Len(rows)}

\* C21: a successful CREATE INDEX on column c of table t leaves the index
\* holding exactly one entry (value of c, primary key) per row of t and no
\* other entry, whatever file of that name was there before.
C21_CreateIndexFresh ==
    [][(/\ hist'.stmts = hist.stmts + 1
        /\ last'.op = "create_index"
        /\ last'.res = "ok"
        /\ status' = "running") =>
           LET t == tables'[last'.table]
               ix == t.indexes[last'.values[1]]
           IN  /\ IndexEntries(ix) = RowEntries(t, ix.column_name)
               /\ IndexCellCount(ix, 0) = Cardinality(RowEntries(t, ix.column_name))]_vars

C23_WideIdRefused ==
    [][(/\ hist'.stmts = hist.stmts + 1
        /\ last'.op = "insert"
        /\ Len(last'.values) > 0
        /\ last'.values[1].kind = "Integer"
        /\ last'.values[1].hi # 0) =>
           /\ last'.res = "invalid_id"
           /\ tables' = tables]_vars

\* The rows a JOIN of a and b on bid = id is to return: for every row of a
\* and every row of b whose id reads as the bid stored in the row of a, the
\* row (a.id, a.bid as stored, b.id, b.v as stored).
JoinedRows(tbls) ==
    LET ra == select_all(tbls["a"]).rows
        rb == select_all(tbls["b"]).rows
    IN  {<< DecimalBytes(ra[i].key), ColumnText(ra[i].data, tbls["a"].columns[2]),
            DecimalBytes(rb[k].key), ColumnText(rb[k].data, tbls["b"].columns[2]) >> :
            << i, k >> \in {p \in (1..Len(ra)) \X (1..Len(rb)) :
                              ColumnText(ra[p[1]].data, tbls["a"].columns[2])
                                 = DecimalBytes(rb[p[2]].key)}}

\* C24: SELECT * FROM a INNER JOIN b ON bid = id returns one row per pair
\* of rows with a.bid = b.id, and the row shows the stored bid in the a.bid
\* column and the stored v in the b.v column.
C24_JoinShowsStoredColumns ==
    (status = "running" /\ last.op = "join") =>
        LET j == execute_select_with_join(tables, "a", "b", "bid", "id")
        IN  /\ j.res = "ok"
            /\ Len(j.rows) = Cardinality(JoinedRows(tables))
            /\ {j.rows[k] : k \in 1..Len(j.rows)} = JoinedRows(tables)

\* The same pages: the same page count, the same file, and every page reads
\* the same through get_page.
SameTree(ta, tb) ==
    /\ ta.pager.num_pages = tb.pager.num_pages
    /\ ta.pager.file = tb.pager.file
    /\ ta.root_page_num = tb.root_page_num
    /\ \A p \in 0..(ta.pager.num_pages - 1) : PageOf(ta, p) = PageOf(tb, p)

\* C25: Table::delete(k) for a key k that is not stored returns 'key not
\* found' and changes no page, no cell count and no byte of the file.
C25_DeleteAbsentKey ==
    [][(/\ hist'.stmts = hist.stmts + 1
        /\ last'.op = "Table::delete"
        /\ last'.values[1] \notin StoredKeys(T)) =>
           /\ last'.res = "not_found"
           /\ SameTree(T, tables'["t"])]_vars

\* The point lookup of a key: find_leaf, then leaf_node_find in the leaf it
\* returned.
PointLookup(t, key) ==
    LET f == find_leaf(t, key)
    IN  IF f.res # "ok" THEN [res |-> f.res, exists |-> FALSE]
        ELSE [res |-> "ok",
              exists |-> leaf_node_find(f.pager.pages[f.page_num], key, t.cell_size).exists]

\* C26: after any sequence of Table::insert and Table::delete calls, the point
\* lookup of every key terminates and reports exists = true exactly when
\* select_all returns the key.
C26_LookupAgreesWithScan ==
    status = "running" =>
        \A key \in 1..MaxCallKey :
            LET found == PointLookup(T, key)
            IN  /\ found.res = "ok"
                /\ found.exists <=> key \in StoredKeys(T)

\* The keys of an internal node, in order, and its children.
InternalKeys(page) ==
    [i \in 1..internal_node_num_keys(page) |-> internal_node_key(page, i - 1)]

InternalChildren(page) ==
    {internal_node_child(page, i) : i \in 0..internal_node_num_keys(page)}

\* What C27 says of one call internal_node_insert(0, _, new_key, new_child)
\* on the root of t.
InternalInsertAsClaimed(t, new_key, new_child) ==
    LET parent == PageOf(t, 0)
        n == internal_node_num_keys(parent)
        insert_index == InsertIndex(parent, new_key)
        after == PageOf(internal_node_insert(t, 0, new_key, new_child).t, 0)
    IN  /\ internal_node_num_keys(after) = n + 1
        /\ StrictlyAscending(InternalKeys(after))
        /\ internal_node_key(after, insert_index) = new_key
        /\ internal_node_child(after, insert_index + 1) = new_child
        /\ InternalChildren(parent) \subseteq InternalChildren(after)

\* C27: internal_node_insert on a parent with n < max keys yields n + 1 keys
\* in strictly ascending order with new_key at insert_index, new_child as
\* child insert_index + 1, and every former child still a child.  The parent
\* is the root of the table, the call the one a leaf split makes: a key the
\* root does not hold and the page number of the new leaf.
C27_InternalInsertPlacesChild ==
    (/\ status = "running"
     /\ RootIsInternal(T)
     /\ internal_node_num_keys(PageOf(T, 0)) < internal_node_max_keys) =>
        \A new_key \in 1..MaxCallKey :
            (\A i \in 0..(internal_node_num_keys(PageOf(T, 0)) - 1) :
                internal_node_key(PageOf(T, 0), i) # new_key) =>
            InternalInsertAsClaimed(T, new_key, T.pager.num_pages)

\* The rows of a scan without the pair of one key.
RowsWithout(rows, key) == SelectSeq(rows, LAMBDA r : r.key # key)

\* Internal nodes, next_leaf links and the page count of ta are those of tb.
SameShape(ta, tb) ==
    /\ ta.pager.num_pages = tb.pager.num_pages
    /\ \A p \in 0..(ta.pager.num_pages - 1) :
          /\ get_node_type(PageOf(ta, p)) = get_node_type(PageOf(tb, p))
          /\ IF get_node_type(PageOf(ta, p)) = NodeInternal
             THEN PageOf(ta, p) = PageOf(tb, p)
             ELSE leaf_node_next_leaf(PageOf(ta, p)) = leaf_node_next_leaf(PageOf(tb, p))

\* C28: Table::delete(k) for a key k that select_all returns succeeds;
\* afterwards select_all returns the former rows without the pair of k, all
\* others unchanged and in the same order, and internal nodes, next_leaf
\* links and the page count are untouched.
C28_DeleteStoredKey ==
    [][(/\ hist'.stmts = hist.stmts + 1
        /\ last'.op = "Table::delete"
        /\ last'.values[1] \in StoredKeys(T)) =>
           /\ last'.res = "ok"
           /\ select_all(tables'["t"]).res = "ok"
           /\ select_all(tables'["t"]).rows = RowsWithout(select_all(T).rows, last'.values[1])
           /\ SameShape(T, tables'["t"])]_vars

\* Table::insert(key, _) on t goes to split_and_insert: the leaf of the key is
\* found, does not hold the key and is full.
SplitsOn(t, key) ==
    LET f == find_leaf(t, key)
        page == f.pager.pages[f.page_num]
    IN  /\ f.res = "ok"
        /\ ~leaf_node_find(page, key, t.cell_size).exists
        /\ leaf_node_num_cells(page) >= leaf_node_max_cells(t.cell_size)
        /\ t.pager.num_pages < TABLE_MAX_PAGES

\* The keys of a leaf in slot order.
LeafKeys(t, page_num) ==
    LET cells == LeafCells(PageOf(t, page_num), t.cell_size, t.row_size)
    IN  [i \in 1..Len(cells) |-> cells[i].key]

\* The row bytes a leaf holds for a key.
RowIn(t, page_num, key) ==
    LET cells == LeafCells(PageOf(t, page_num), t.cell_size, t.row_size)
    IN  {cells[i].data : i \in {j \in 1..Len(cells) : cells[j].key = key}}

\* What C29 says of a split of the leaf old_page_num of t on insertion of key
\* that gave ta.  The old leaf of a root split is the copy create_new_root
\* made of page 0, the page after the new leaf.
SplitAsClaimed(t, old_page_num, key, ta) ==
    LET new_page_num == t.pager.num_pages
        was_root == is_node_root(PageOf(t, old_page_num))
        left == IF was_root THEN new_page_num + 1 ELSE old_page_num
        before == LeafKeySet(t, old_page_num)
        all == before \cup {key}
        left_count == (Cardinality(all) + 1) \div 2
        smallest == {k \in all : Cardinality({j \in all : j <= k}) <= left_count}
        parent == PageOf(t, get_parent_pointer(PageOf(t, old_page_num)))
        split_key == LeafKeys(ta, left)[left_count]
    IN  /\ ta.pager.num_pages = new_page_num + (IF was_root THEN 2 ELSE 1)
        /\ IsLeafPage(ta, left) /\ IsLeafPage(ta, new_page_num)
        /\ StrictlyAscending(LeafKeys(ta, left))
        /\ StrictlyAscending(LeafKeys(ta, new_page_num))
        /\ LeafKeySet(ta, left) = smallest
        /\ LeafKeySet(ta, new_page_num) = all \ smallest
        /\ \A k \in before :
              RowIn(ta, IF k \in smallest THEN left ELSE new_page_num, k)
                  = RowIn(t, old_page_num, k)
        /\ leaf_node_next_leaf(PageOf(ta, new_page_num))
              = leaf_node_next_leaf(PageOf(t, old_page_num))
        /\ leaf_node_next_leaf(PageOf(ta, left)) = new_page_num
        /\ IF was_root
           THEN internal_node_key(PageOf(ta, 0), 0) = split_key
           ELSE internal_node_num_keys(parent) < internal_node_max_keys =>
                    internal_node_key(PageOf(ta, get_parent_pointer(PageOf(t, old_page_num))),
                                      InsertIndex(parent, split_key)) = split_key

\* C29: a split of a full leaf with N cells on insertion of a new key leaves
\* the ceil((N+1)/2) smallest of the N+1 cells in the old leaf and the others
\* in the new page (page number = num_pages before), keeps the bytes of every
\* existing row, sets new.next_leaf to the old leaf's former next_leaf and
\* old.next_leaf to the new page, and promotes the largest key of the old
\* leaf as split key.
C29_SplitHalves ==
    [][(/\ hist'.stmts = hist.stmts + 1
        /\ last'.op = "Table::insert"
        /\ SplitsOn(T, last'.values[1])) =>
           /\ last'.res = "ok"
           /\ SplitAsClaimed(T, find_leaf(T, last'.values[1]).page_num,
                             last'.values[1], tables'["t"])]_vars

\* A leaf below the root has just been split.
C29_Witness ==
    /\ status = "running"
    /\ last.op = "Table::insert"
    /\ last.res = "ok"
    /\ T.pager.num_pages = 4
    /\ hist.ins_ok = 4
    /\ hist.stmts = 4
    /\ IsLeafPage(T, 3)
    /\ leaf_node_next_leaf(PageOf(T, 3)) # 0

\* The row bytes select_all returns for a key.
ScannedRows(t, key) ==
    LET rows == select_all(t).rows
    IN  {rows[i].data : i \in {j \in 1..Len(rows) : rows[j].key = key}}

\* C30: a row stored by Table::insert(key, row_data) with row_data shorter
\* than row_size reads back from select_all as row_data followed by zero
\* bytes up to row_size, whether the insertion fits in the leaf or splits it.
C30_ShortRowZeroPadded ==
    [][(/\ hist'.stmts = hist.stmts + 1
        /\ last'.op = "Table::insert"
        /\ last'.res = "ok"
        /\ Len(last'.values[2]) < T.row_size) =>
           ScannedRows(tables'["t"], last'.values[1])
               = {last'.values[2] \o Zeros(T.row_size - Len(last'.values[2]))}]_vars

\* What C31 says of one call get_page(page_num) on a pager.
GetPageAsClaimed(pg, page_num) ==
    LET after == get_page(pg, page_num)
    IN  /\ page_num \in DOMAIN after.pages
        /\ after.pages[page_num] =
              IF page_num \in DOMAIN pg.pages THEN pg.pages[page_num]
              ELSE IF page_num < Len(pg.file) THEN pg.file[page_num + 1]
              ELSE [i \in 1..PAGE_SIZE |-> 0]
        /\ after.num_pages = Max(pg.num_pages, page_num + 1)
        /\ DOMAIN after.pages \ {page_num} = DOMAIN pg.pages \ {page_num}
        /\ \A m \in DOMAIN pg.pages \ {page_num} : after.pages[m] = pg.pages[m]
        /\ after.file = pg.file

\* C31: Pager::get_page(n) on an empty slot returns block n of the file when
\* the block is on disk and a page of zeros otherwise; on a populated slot it
\* returns the cached buffer and reads nothing; afterwards num_pages is the
\* maximum of its former value and n + 1 and no other slot has changed.  Asked
\* of the pager of every open table, for every page up to the next new one.
C31_GetPage ==
    status = "running" =>
        \A n \in DOMAIN tables : \A page_num \in 0..tables[n].pager.num_pages :
            GetPageAsClaimed(tables[n].pager, page_num)

\* One pager has an empty slot whose block is on disk and not all zero, one
\* has a populated slot whose buffer is not what the disk holds.
C31_Witness ==
    /\ status = "running"
    /\ \E n \in DOMAIN tables :
          \E page_num \in 0..(Len(tables[n].pager.file) - 1) :
              /\ page_num \notin DOMAIN tables[n].pager.pages
              /\ tables[n].pager.file[page_num + 1] # [i \in 1..PAGE_SIZE |-> 0]
    /\ \E n \in DOMAIN tables :
          \E page_num \in DOMAIN tables[n].pager.pages :
              /\ page_num < Len(tables[n].pager.file)
              /\ tables[n].pager.pages[page_num] # tables[n].pager.file[page_num + 1]

\* What C32 says of one call flush(page_num) on a pager.
FlushAsClaimed(pg, page_num) ==
    LET after == flush(pg, page_num)
    IN  /\ after.pages = pg.pages
        /\ after.num_pages = pg.num_pages
        /\ IF page_num \in DOMAIN pg.pages
           THEN /\ Len(after.file) = Max(Len(pg.file), page_num + 1)
                /\ after.file[page_num + 1] = pg.pages[page_num]
                /\ \A i \in 1..Len(pg.file) :
                      i # page_num + 1 => after.file[i] = pg.file[i]
           ELSE after.file = pg.file

\* C32: Pager::flush(n) on a populated slot overwrites block n of the file
\* with the cached buffer and changes no other block and no cache slot; on an
\* empty slot it changes nothing; the file is a whole number of blocks of
\* PAGE_SIZE bytes.  Asked of the pager of every open table, for every page
\* up to the next new one.
C32_Flush ==
    status = "running" =>
        \A n \in DOMAIN tables :
            /\ \A page_num \in 0..tables[n].pager.num_pages :
                  FlushAsClaimed(tables[n].pager, page_num)
            /\ \A i \in 1..Len(tables[n].pager.file) :
                  Len(tables[n].pager.file[i]) = PAGE_SIZE

\* A file of several blocks and a populated slot whose buffer is not what the
\* disk holds: a flush of it changes one block of many.
C32_Witness ==
    /\ status = "running"
    /\ \E n \in DOMAIN tables :
          /\ Len(tables[n].pager.file) >= 3
          /\ \E page_num \in DOMAIN tables[n].pager.pages :
                /\ page_num < Len(tables[n].pager.file)
                /\ tables[n].pager.pages[page_num] # tables[n].pager.file[page_num + 1]
          /\ tables[n].pager.num_pages \notin DOMAIN tables[n].pager.pages

\* C33: after Index::insert calls with pairwise distinct keys, find(k) returns
\* exactly [r] for every inserted pair (k, r) and the empty list for a key
\* never inserted.  The index is ix on u(name); the pairs inserted are the
\* (name, id) of the rows the INSERTs stored.
C33_FindReturnsInserted ==
    (status = "running" /\ NoRepeats(hist.ok_values)) =>
        \A value \in IndexedValues :
            LET found == index_find(tables["u"].indexes["ix"], ValueBytes(value))
                pairs == {e \in RowEntries(tables["u"], "name") : e.key = ValueBytes(value)}
            IN  /\ found.res = "ok"
                /\ {found.ids[i] : i \in 1..Len(found.ids)} = {e.row_id : e \in pairs}
                /\ Len(found.ids) = Cardinality(pairs)

\* C34: index keys are cut to INDEX_KEY_SIZE bytes on insert: after
\* insert(k, r) with a key k longer than INDEX_KEY_SIZE bytes, find(k)
\* contains r.
C34_LongKeyFound ==
    (/\ status = "running"
     /\ last.op = "Index::insert"
     /\ last.res = "ok"
     /\ Len(last.values[1]) > INDEX_KEY_SIZE) =>
        LET found == index_find(tables["u"].indexes["ix"], last.values[1])
        IN  \E i \in 1..Len(found.ids) : found.ids[i] = last.values[2]

\* C35: Index::delete(k, r) removes exactly one cell, the one with key k and
\* row id r, and leaves every other cell; when no cell has both it returns Ok
\* and changes nothing.
C35_IndexDeleteOneCell ==
    [][(/\ hist'.stmts = hist.stmts + 1
        /\ last'.op = "Index::delete") =>
           LET ix == tables["u"].indexes["ix"]
               after == tables'["u"].indexes["ix"]
               cell == [key |-> last'.values[1], row_id |-> last'.values[2]]
           IN  /\ last'.res = "ok"
               /\ IF cell \in IndexEntries(ix)
                  THEN /\ IndexCellCount(after, 0) = IndexCellCount(ix, 0) - 1
                       /\ IndexEntries(ix) \ {cell} \subseteq IndexEntries(after)
                       /\ IndexEntries(after) \subseteq IndexEntries(ix)
                  ELSE /\ IndexCellCount(after, 0) = IndexCellCount(ix, 0)
                       /\ IndexEntries(after) = IndexEntries(ix)
                       /\ after.pager.file = ix.pager.file]_vars

\* C36: after any sequence of inserts and deletes select_all terminates: the
\* next_leaf chain from the leftmost leaf visits no page twice, does not lead
\* back to page 0, visits leaves only and ends at a leaf whose next_leaf is 0.
C36_ScanTerminates ==
    status = "running" =>
        LET scan == select_all(T)
        IN  /\ scan.res = "ok"
            /\ RootIsInternal(T) => 0 \notin scan.leaves
            /\ \A p \in scan.leaves : IsLeafPage(T, p)
            /\ \E p \in scan.leaves : leaf_node_next_leaf(PageOf(T, p)) = 0

\* A chain of at least three leaves after inserts and a delete, with the root
\* holding two keys or more.
C36_Witness ==
    /\ status = "running"
    /\ RootIsInternal(T)
    /\ internal_node_num_keys(PageOf(T, 0)) >= 2
    /\ Cardinality(select_all(T).leaves) >= 3
    /\ hist.del_ok >= 1

\* C37: after any sequence of INSERT, UPDATE and DELETE statements on a table
\* with an index on column c, the entries of the index are exactly the pairs
\* (value of c, primary key) of the rows now in the table.  The table is u,
\* the index ix on name.
C37_IndexFollowsRows ==
    status = "running" =>
        IndexEntries(tables["u"].indexes["ix"]) = RowEntries(tables["u"], "name")

\* C38: ROLLBACK discards index changes too: after a ROLLBACK that ends a
\* transaction on a table with an index, Index::find returns for every key
\* the row ids it returned before BEGIN, and the index file is as it was.
C38_RollbackRestoresIndex ==
    (status = "running" /\ last.op = "rollback" /\ last.res = "ok") =>
        /\ \A value \in IndexedValues :
              index_find(tables["u"].indexes["ix"], ValueBytes(value)).ids
                  = index_find(hist.indexes["ix"], ValueBytes(value)).ids
        /\ tables["u"].indexes["ix"].pager.file = hist.indexes["ix"].pager.file

\* C39: in every state of the executor a transaction is in progress exactly
\* when the open tables have defer_flush set, tables created while the
\* transaction is open included.
C39_DeferFlushFollowsTransaction ==
    status = "running" =>
        \A n \in DOMAIN tables : tables[n].defer_flush <=> in_transaction

====
